---------------------------- MODULE Spec2Model ----------------------------
(***************************************************************************)
(* Reverse-proxy load balancer: token-bucket storage (in-process and      *)
(* networked), rate limiter, balancer registry and selection, health      *)
(* loop, and the proxy request pipeline.                                   *)
(*                                                                         *)
(* Time is counted in ticks of half a second (Ms(t) = 500 t milliseconds), *)
(* so that a refill rate of 1 token/s adds no whole token in one tick.     *)
(***************************************************************************)
EXTENDS Integers, Sequences, FiniteSets, TLC

(* ------------------------------ bounds --------------------------------- *)
\* last tick of the clock
MaxTick == 3
\* largest capacity a caller passes
MaxCap == 3
\* largest refill rate (tokens per second) a caller passes
MaxRate == 2
\* largest number of tokens one call asks for
MaxTake == 3
\* rate_limit.default.capacity / refill_rate of the configuration in use
DefaultCapacity == 1
DefaultRefillRate == 1
\* requests the proxy serves at the same time
MaxReqs == 2
\* requests the proxy accepts in one run
MaxRequests == 2
\* probes of one backend in flight at the same time
MaxInflight == 1
\* NextBackend calls made directly on the balancer in one run
MaxPicks == 4

(* ------------------------- program constants --------------------------- *)
\* HTTPHealthChecker.threshold
Threshold == 3
\* maxRetries passed to WithRetry by every storage call
MaxRetries == 3

Keys == {"c1", "c2"}
\* the key the side-by-side storage runs use
StoreKeys == {"c1"}
Caps == 1..MaxCap
Rates == 0..MaxRate
Takes == 1..MaxTake

Backends == {"b1", "b2"}
NoBackend == "none"
Algorithms == {"round_robin", "least_connections", "random"}
Reqs == 1..MaxReqs

Min(a, b) == IF a < b THEN a ELSE b
Max(a, b) == IF a > b THEN a ELSE b

\* milliseconds of t ticks
Ms(t) == t * 500

(* --------------------------- variables --------------------------------- *)
VARIABLES
    now,        \* the clock, in ticks
    memB,       \* MemoryStorage.tokens : key -> bucket (NoBucket when absent)
    memC,       \* MemoryStorage.configs: key -> config (NoConfig when absent)
    redB,       \* Redis hash ratelimit:<key>        (NoBucket when absent)
    redC,       \* Redis hash ratelimit:config:<key> (NoConfig when absent)
    obs,        \* the last Storage / RateLimiter call: its arguments and what it returned
    storeKind,  \* which Storage the rate limiter was built over: "memory" or "redis"
    cache,      \* TokenBucketRateLimiter.clients: key -> config (NoConfig when absent)
    rlEnabled,  \* Proxy.rateLimiter != nil
    registry,   \* BaseBalancer.backends, in registration order
    alive,      \* Backend.IsAlive
    fc,         \* Backend.FailureCount
    active,     \* Backend.ActiveConns
    total,      \* Backend.TotalRequests
    failed,     \* Backend.FailedReqs
    cursor,     \* RoundRobinBalancer.current
    algo,       \* the Balancer variant in use
    req,        \* the proxy's request tasks: position in ServeHTTP and its locals
    started,    \* number of requests accepted so far
    probes,     \* health probes in flight: backend -> position in the probe -> count
    streak,     \* history: consecutive unhealthy HTTP results of a backend's probes
    mu,         \* MemoryStorage.mu: the caller holding it, or 0
    calls,      \* concurrent TakeTokens callers: position in the call and its locals
    granted,    \* history: tokens granted by the allowed concurrent calls
    supplied,   \* history: tokens the bucket started with plus those refills added
    picked,     \* history: how many times NextBackend returned each backend
    lookups     \* getClientConfig calls in progress: position and locals

storeVars == <<memB, memC, redB, redC>>
rlVars == <<storeKind, cache, rlEnabled>>
beVars == <<alive, fc, active, total, failed>>
lbVars == <<registry, cursor, algo, picked>>
reqVars == <<req, started>>
healthVars == <<probes, streak>>
concVars == <<mu, calls, granted, supplied, lookups>>
vars == <<now, memB, memC, redB, redC, obs, storeKind, cache, rlEnabled, registry,
          alive, fc, active, total, failed, cursor, algo, req, started, probes, streak,
          mu, calls, granted, supplied, picked, lookups>>

NoBucket == [tokens |-> -1, lastRefill |-> -1]
NoConfig == [capacity |-> -1, refillRate |-> -1]
NoObs == [op |-> "none"]

(* ----------------------- in-process storage ---------------------------- *)
\* tokensToAdd := int(elapsed * float64(refillRate)), elapsed in seconds
MemTokensToAdd(bucket, at, refillRate) ==
    (Ms(at - bucket.lastRefill) * refillRate) \div 1000

\* the bucket after the refill branch of TakeTokens (before the take)
MemRefill(bucket, at, capacity, refillRate) ==
    IF bucket = NoBucket
    THEN [tokens |-> capacity, lastRefill |-> at]
    ELSE IF MemTokensToAdd(bucket, at, refillRate) > 0
         THEN [tokens |-> Min(capacity, bucket.tokens + MemTokensToAdd(bucket, at, refillRate)),
               lastRefill |-> at]
         ELSE bucket

\* MemoryStorage.TakeTokens as a function of the bucket found under the key:
\* the bucket written back and the (allowed, remaining) returned
MemTake(bucket, at, tokensToTake, capacity, refillRate) ==
    LET b == MemRefill(bucket, at, capacity, refillRate) IN
    IF b.tokens >= tokensToTake
    THEN [bucket |-> [b EXCEPT !.tokens = b.tokens - tokensToTake],
          allowed |-> TRUE, remaining |-> b.tokens - tokensToTake]
    ELSE [bucket |-> b, allowed |-> FALSE, remaining |-> b.tokens]

\* a read that hands back the absent entry as it is
MemGetConfigRaw(cfg) == cfg

\* MemoryStorage.GetClientConfig: (0,0) when absent
MemGetConfig(cfg) ==
    IF cfg = NoConfig THEN [capacity |-> 0, refillRate |-> 0] ELSE cfg

\* MemoryStorage.SetClientConfig: (0,0) deletes the entry
MemSetConfig(capacity, refillRate) ==
    IF capacity = 0 /\ refillRate = 0 THEN NoConfig
    ELSE [capacity |-> capacity, refillRate |-> refillRate]

(* ------------------------ networked storage ---------------------------- *)
\* tokenBucketScript, run atomically by the server; at is ARGV[4] in ticks
RedisScript(bucket, at, tokensToTake, capacity, refillRate) ==
    LET tokens0 == IF bucket = NoBucket THEN capacity ELSE bucket.tokens
        lastRefill == IF bucket = NoBucket THEN at ELSE bucket.lastRefill
        elapsed == Max(0, Ms(at) - Ms(lastRefill))
        tokensToAdd == Min(capacity - tokens0, (elapsed * refillRate) \div 1000)
        tokens1 == Min(capacity, tokens0 + tokensToAdd)
        allowed == tokens1 >= tokensToTake
        tokens2 == IF allowed THEN tokens1 - tokensToTake ELSE tokens1
    IN [bucket |-> [tokens |-> tokens2, lastRefill |-> at],
        allowed |-> allowed, remaining |-> tokens2]

\* RedisStorage.GetClientConfig on the reply of HGETALL: empty hash gives (0,0)
RedisGetConfig(cfg) ==
    IF cfg = NoConfig THEN [capacity |-> 0, refillRate |-> 0] ELSE cfg

\* a write that stores the two fields the wrong way round
RedisSetConfigSwapped(capacity, refillRate) ==
    [capacity |-> refillRate, refillRate |-> capacity]

\* RedisStorage.SetClientConfig: HSET of both fields, also for (0,0)
RedisSetConfig(capacity, refillRate) ==
    [capacity |-> capacity, refillRate |-> refillRate]

(* ------------------- retry wrapper of the redis client ----------------- *)
\* What the connection does to one storage call: the first f.fails attempts end
\* in a recognised connection-level error before the command reaches the server,
\* the next attempt ends as f.last ("ok", or "other": an error that is not
\* connection-level); f.ctxDone: the caller's context is done during the backoff.
Faults ==
    { [fails |-> 0, last |-> "ok", ctxDone |-> FALSE],
      [fails |-> 1, last |-> "ok", ctxDone |-> FALSE],
      [fails |-> MaxRetries + 1, last |-> "ok", ctxDone |-> FALSE],
      [fails |-> 0, last |-> "other", ctxDone |-> FALSE],
      [fails |-> 1, last |-> "ok", ctxDone |-> TRUE] }
NoFault == [fails |-> 0, last |-> "ok", ctxDone |-> FALSE]

\* Client.WithRetry from attempt i on: the error returned and the number of times
\* fn was called
RECURSIVE WithRetryFrom(_, _, _)
WithRetryFrom(i, f, maxRetries) ==
    IF i >= f.fails
    THEN [err |-> IF f.last = "ok" THEN "nil" ELSE "other", calls |-> i + 1]
    ELSE IF i = maxRetries THEN [err |-> "conn", calls |-> i + 1]
    ELSE IF f.ctxDone THEN [err |-> "ctx", calls |-> i + 1]
    ELSE WithRetryFrom(i + 1, f, maxRetries)

WithRetry(f, maxRetries) == WithRetryFrom(0, f, maxRetries)

(* ------------- the Storage interface as the limiter sees it ------------ *)
\* Storage.TakeTokens at time at: the buckets afterwards and (allowed, remaining, err)
StorageTake(kind, k, n, capacity, refillRate, at, f) ==
    IF kind = "memory"
    THEN LET m == MemTake(memB[k], at, n, capacity, refillRate) IN
         [allowed |-> m.allowed, remaining |-> m.remaining, err |-> "nil",
          memB |-> [memB EXCEPT ![k] = m.bucket], redB |-> redB]
    ELSE LET w == WithRetry(f, MaxRetries)
             r == RedisScript(redB[k], at, n, capacity, refillRate) IN
         IF w.err # "nil"
         THEN [allowed |-> FALSE, remaining |-> 0, err |-> w.err,
               memB |-> memB, redB |-> redB]
         ELSE [allowed |-> r.allowed, remaining |-> r.remaining, err |-> "nil",
               memB |-> memB, redB |-> [redB EXCEPT ![k] = r.bucket]]

\* Storage.GetClientConfig: (capacity, refillRate, err)
StorageGetConfig(kind, k, f) ==
    IF kind = "memory"
    THEN [cfg |-> MemGetConfig(memC[k]), err |-> "nil"]
    ELSE LET w == WithRetry(f, MaxRetries) IN
         IF w.err # "nil"
         THEN [cfg |-> [capacity |-> 0, refillRate |-> 0], err |-> w.err]
         ELSE [cfg |-> RedisGetConfig(redC[k]), err |-> "nil"]

\* a write that lands in the store even when the call reports an error
StorageSetConfigDespiteError(kind, k, capacity, refillRate, f) ==
    [err |-> IF kind = "memory" THEN "nil" ELSE WithRetry(f, MaxRetries).err,
     memC |-> IF kind = "memory"
              THEN [memC EXCEPT ![k] = MemSetConfig(capacity, refillRate)] ELSE memC,
     redC |-> IF kind = "memory" THEN redC
              ELSE [redC EXCEPT ![k] = RedisSetConfig(capacity, refillRate)]]

\* Storage.SetClientConfig: the config maps afterwards and the error
StorageSetConfig(kind, k, capacity, refillRate, f) ==
    IF kind = "memory"
    THEN [err |-> "nil", redC |-> redC,
          memC |-> [memC EXCEPT ![k] = MemSetConfig(capacity, refillRate)]]
    ELSE LET w == WithRetry(f, MaxRetries) IN
         IF w.err # "nil"
         THEN [err |-> w.err, memC |-> memC, redC |-> redC]
         ELSE [err |-> "nil", memC |-> memC,
               redC |-> [redC EXCEPT ![k] = RedisSetConfig(capacity, refillRate)]]

\* the token count stored for k in the Storage in use, given both bucket maps
StoredTokens(kind, k, mb, rb) == IF kind = "memory" THEN mb[k].tokens ELSE rb[k].tokens

(* ---------------------------- rate limiter ----------------------------- *)
DefaultConfig == [capacity |-> DefaultCapacity, refillRate |-> DefaultRefillRate]

\* TokenBucketRateLimiter.getClientConfig: the pair, the error, the cache afterwards
GetClientConfig(k, f) ==
    IF cache[k] # NoConfig
    THEN [cfg |-> cache[k], err |-> "nil", cache |-> cache]
    ELSE LET g == StorageGetConfig(storeKind, k, f) IN
         IF g.err # "nil"
         THEN [cfg |-> [capacity |-> 0, refillRate |-> 0], err |-> g.err, cache |-> cache]
         ELSE LET c == IF g.cfg.capacity = 0 \/ g.cfg.refillRate = 0
                       THEN DefaultConfig ELSE g.cfg IN
              [cfg |-> c, err |-> "nil", cache |-> [cache EXCEPT ![k] = c]]

\* a denial that carries no error
DeniedReturnWithoutError(remaining) ==
    [allowed |-> FALSE, remaining |-> remaining, err |-> "nil"]

\* what Allow returns on a denied take
DeniedReturn(remaining) ==
    [allowed |-> FALSE, remaining |-> remaining, err |-> "ErrRateLimitExceeded"]

\* an Allow that resolves the client's config before looking at n
AllowResolvingFirst(k, n, f1, f2) ==
    LET c == GetClientConfig(k, f1) IN
    [ret |-> IF c.err # "nil" THEN [allowed |-> FALSE, remaining |-> 0, err |-> c.err]
             ELSE [allowed |-> TRUE, remaining |-> 0, err |-> "nil"],
     cache |-> c.cache, memB |-> memB, redB |-> redB]

\* TokenBucketRateLimiter.Allow(client, n): what it returns (ret) and the cache
\* and buckets it leaves; f1, f2: the connection during the config read and the take
Allow(k, n, f1, f2) ==
    IF n <= 0
    THEN [ret |-> [allowed |-> TRUE, remaining |-> 0, err |-> "nil"],
          cache |-> cache, memB |-> memB, redB |-> redB]
    ELSE LET c == GetClientConfig(k, f1) IN
         IF c.err # "nil"
         THEN [ret |-> [allowed |-> FALSE, remaining |-> 0, err |-> c.err],
               cache |-> c.cache, memB |-> memB, redB |-> redB]
         ELSE LET t == StorageTake(storeKind, k, n, c.cfg.capacity, c.cfg.refillRate,
                                   now, f2) IN
              IF t.err # "nil"
              THEN [ret |-> [allowed |-> FALSE, remaining |-> 0, err |-> t.err],
                    cache |-> c.cache, memB |-> t.memB, redB |-> t.redB]
              ELSE IF ~t.allowed
              THEN [ret |-> DeniedReturn(t.remaining),
                    cache |-> c.cache, memB |-> t.memB, redB |-> t.redB]
              ELSE [ret |-> [allowed |-> TRUE, remaining |-> t.remaining, err |-> "nil"],
                    cache |-> c.cache, memB |-> t.memB, redB |-> t.redB]

(* ------------------------------ balancer ------------------------------- *)
\* a filter that lets every backend through
Everyone(s) == s

\* the backends of sequence s that satisfy IsAvailable, in order
RECURSIVE Healthy(_)
Healthy(s) ==
    IF s = <<>> THEN <<>>
    ELSE IF alive[Head(s)] THEN <<Head(s)>> \o Healthy(Tail(s))
    ELSE Healthy(Tail(s))

\* BaseBalancer.GetHealthyBackends
GetHealthyBackends == Healthy(registry)

InSeq(x, s) == \E i \in 1..Len(s) : s[i] = x

\* a pick that ignores the cursor
RoundRobinPickFirst(h) == h[1]

\* RoundRobinBalancer.NextBackend on snapshot h: healthy[current.Add(1) % len]
RoundRobinPick(h) == h[((cursor + 1) % Len(h)) + 1]

\* the scan of LeastConnectionsBalancer.NextBackend from index i on, minIdx being
\* the index of the smallest count seen so far (replaced only by a smaller one)
RECURSIVE LeastConnScan(_, _, _)
LeastConnScan(h, i, minIdx) ==
    IF i > Len(h) THEN minIdx
    ELSE LeastConnScan(h, i + 1, IF active[h[i]] < active[h[minIdx]] THEN i ELSE minIdx)

\* a scan that keeps the last of the backends tied for the minimum
LeastConnPickLast(h) ==
    h[CHOOSE j \in 1..Len(h) :
          /\ \A m \in 1..Len(h) : active[h[j]] <= active[h[m]]
          /\ \A m \in (j + 1)..Len(h) : active[h[m]] > active[h[j]]]

\* LeastConnectionsBalancer.NextBackend on snapshot h
LeastConnPick(h) == h[LeastConnScan(h, 2, 1)]

\* a decrement that is skipped
DecrementActiveConnsSkipped(b) == active

\* Backend.IncrementActiveConns / DecrementActiveConns: ActiveConns.Add(1) / Add(-1)
IncrementActiveConns(b) == [active EXCEPT ![b] = @ + 1]
DecrementActiveConns(b) == [active EXCEPT ![b] = @ - 1]

\* the backends NextBackend may return on snapshot h
Picks(h) ==
    IF algo = "round_robin" THEN {RoundRobinPick(h)}
    ELSE IF algo = "least_connections" THEN {LeastConnPick(h)}
    ELSE {h[i] : i \in 1..Len(h)}

(* ------------------------------ initial states ------------------------- *)
IdleReq ==
    [pc |-> "idle", client |-> "none", h |-> <<>>, be |-> NoBackend,
     gate |-> [allowed |-> TRUE, remaining |-> -1, err |-> "none"],
     status |-> 0, sent |-> 0, hdrRemaining |-> -1, hdrRetryAfter |-> -1]

IdleCall == [pc |-> "idle", n |-> 0, at |-> 0, seen |-> NoBucket, res |-> NoBucket,
             allowed |-> FALSE, remaining |-> 0, add |-> 0]

IdleLookup == [pc |-> "idle", client |-> "none", hit |-> FALSE, cfg |-> NoConfig,
               err |-> "none", want |-> NoConfig]

ProbePCs == {"http", "incr", "load", "markUp", "resetFc", "markDownThr", "markDownDead"}

\* the state after construction: the Storage of kind `kind` empty, the limiter
\* configured or not, the balancer built over the backends of reg with algorithm al
Constructed(kind, limiter, reg, al) ==
    /\ now = 0
    /\ memB = [k \in Keys |-> NoBucket]
    /\ memC = [k \in Keys |-> NoConfig]
    /\ redB = [k \in Keys |-> NoBucket]
    /\ redC = [k \in Keys |-> NoConfig]
    /\ obs = NoObs
    /\ storeKind = kind
    /\ cache = [k \in Keys |-> NoConfig]
    /\ rlEnabled = limiter
    /\ registry = reg
    /\ alive = [b \in Backends |-> TRUE]
    /\ fc = [b \in Backends |-> 0]
    /\ active = [b \in Backends |-> 0]
    /\ total = [b \in Backends |-> 0]
    /\ failed = [b \in Backends |-> 0]
    /\ cursor = 0
    /\ algo = al
    /\ req = [r \in Reqs |-> IdleReq]
    /\ started = 0
    /\ probes = [b \in Backends |-> [p \in ProbePCs |-> 0]]
    /\ streak = [b \in Backends |-> 0]
    /\ mu = 0
    /\ calls = [c \in Reqs |-> IdleCall]
    /\ granted = 0
    /\ supplied = 0
    /\ picked = [b \in Backends |-> 0]
    /\ lookups = [c \in Reqs |-> IdleLookup]

(* ------------- both Storage implementations driven side by side -------- *)
StoreInit == Constructed("memory", FALSE, <<"b1", "b2">>, "round_robin")

\* the clock advances
AdvanceTime ==
    /\ now < MaxTick
    /\ now' = now + 1
    /\ UNCHANGED <<storeVars, obs, rlVars, beVars, lbVars, reqVars, healthVars,
                   concVars>>

\* take_tokens with the same arguments at the same timestamp on both (the
\* connection to the networked store is healthy)
StoreTake(k, n, capacity, refillRate) ==
    LET m == MemTake(memB[k], now, n, capacity, refillRate)
        r == RedisScript(redB[k], now, n, capacity, refillRate)
    IN /\ memB' = [memB EXCEPT ![k] = m.bucket]
       /\ redB' = [redB EXCEPT ![k] = r.bucket]
       /\ obs' = [op |-> "take", key |-> k, n |-> n, capacity |-> capacity,
                  refillRate |-> refillRate, at |-> now,
                  memPre |-> memB[k],
                  mem |-> [allowed |-> m.allowed, remaining |-> m.remaining],
                  red |-> [allowed |-> r.allowed, remaining |-> r.remaining]]
       /\ UNCHANGED <<concVars, now, memC, redC, rlVars, beVars, lbVars, reqVars, healthVars>>

\* set_client_config on both
StoreSet(k, capacity, refillRate) ==
    /\ memC' = [memC EXCEPT ![k] = MemSetConfig(capacity, refillRate)]
    /\ redC' = [redC EXCEPT ![k] = RedisSetConfig(capacity, refillRate)]
    /\ obs' = [op |-> "set", key |-> k, capacity |-> capacity, refillRate |-> refillRate]
    /\ UNCHANGED <<concVars, now, memB, redB, rlVars, beVars, lbVars, reqVars, healthVars>>

\* get_client_config on both
StoreGet(k) ==
    /\ obs' = [op |-> "get", key |-> k,
               mem |-> MemGetConfig(memC[k]), red |-> RedisGetConfig(redC[k])]
    /\ UNCHANGED <<concVars, now, storeVars, rlVars, beVars, lbVars, reqVars, healthVars>>

StoreNext ==
    \/ AdvanceTime
    \/ \E k \in StoreKeys, n \in Takes, c \in Caps, r \in Rates : StoreTake(k, n, c, r)
    \/ \E k \in StoreKeys, c \in {0, MaxCap}, r \in {0, MaxRate} : StoreSet(k, c, r)
    \/ \E k \in StoreKeys : StoreGet(k)

SpecStore == StoreInit /\ [][StoreNext]_vars

(* ----------------------- rate limiter operations ----------------------- *)
\* the connection behaviours that matter to the Storage in use
FaultsNow == IF storeKind = "redis" THEN Faults ELSE {NoFault}

\* a call of Allow(client, n) from outside the proxy (HandleStatus calls it with 0)
AllowCall(k, n, f1, f2) ==
    LET a == Allow(k, n, f1, f2) IN
    /\ cache' = a.cache
    /\ memB' = a.memB
    /\ redB' = a.redB
    /\ obs' = [op |-> "allow", key |-> k, n |-> n, ret |-> a.ret,
               pre |-> StoredTokens(storeKind, k, memB, redB),
               stored |-> StoredTokens(storeKind, k, a.memB, a.redB)]
    /\ UNCHANGED <<concVars, now, memC, redC, storeKind, rlEnabled, beVars, lbVars, reqVars,
                   healthVars>>

\* TokenBucketRateLimiter.UpdateClientConfig
UpdateClientConfig(k, capacity, refillRate, f) ==
    IF capacity <= 0 \/ refillRate <= 0
    THEN /\ obs' = [op |-> "update", key |-> k, capacity |-> capacity,
                    refillRate |-> refillRate, err |-> "invalid"]
         /\ UNCHANGED <<concVars, now, storeVars, rlVars, beVars, lbVars, reqVars, healthVars>>
    ELSE LET s == StorageSetConfig(storeKind, k, capacity, refillRate, f) IN
         /\ memC' = s.memC
         /\ redC' = s.redC
         /\ cache' = IF s.err # "nil" THEN cache
                     ELSE [cache EXCEPT ![k] = [capacity |-> capacity,
                                                refillRate |-> refillRate]]
         /\ obs' = [op |-> "update", key |-> k, capacity |-> capacity,
                    refillRate |-> refillRate, err |-> s.err]
         /\ UNCHANGED <<concVars, now, memB, redB, storeKind, rlEnabled, beVars, lbVars, reqVars,
                        healthVars>>

\* ClientManager.HandleDeleteClient: storage.SetClientConfig(client, 0, 0)
DeleteClient(k, f) ==
    LET s == StorageSetConfig(storeKind, k, 0, 0, f) IN
    /\ memC' = s.memC
    /\ redC' = s.redC
    /\ obs' = [op |-> "delete", key |-> k, err |-> s.err]
    /\ UNCHANGED <<concVars, now, memB, redB, rlVars, beVars, lbVars, reqVars, healthVars>>

(* --------------------------- proxy pipeline ---------------------------- *)
\* status the default errorHandler of NewProxy writes
ErrorHandlerStatus == 503

\* a gate that lets the request through when the limiter fails
GatedFailingOpen(client, ret) ==
    IF ret.err = "ErrRateLimitExceeded"
    THEN [IdleReq EXCEPT !.pc = "done", !.client = client, !.gate = ret,
                         !.status = 500, !.sent = ErrorHandlerStatus]
    ELSE [IdleReq EXCEPT !.pc = "pick", !.client = client, !.gate = ret]

\* the request's record once the rate-limit gate of ServeHTTP has run with the
\* result ret of Allow
Gated(client, ret) ==
    IF ret.err # "nil"
    THEN [IdleReq EXCEPT !.pc = "done", !.client = client, !.gate = ret,
                         !.status = 500, !.sent = ErrorHandlerStatus]
    ELSE IF ~ret.allowed
    THEN [IdleReq EXCEPT !.pc = "done", !.client = client, !.gate = ret,
                         !.status = 429, !.sent = 429,
                         !.hdrRemaining = ret.remaining, !.hdrRetryAfter = 1]
    ELSE [IdleReq EXCEPT !.pc = "pick", !.client = client, !.gate = ret]

\* ServeHTTP of a proxy with a rate limiter, up to and including the gate
ReqGate(r, client, f1, f2) ==
    /\ rlEnabled
    /\ req[r].pc \in {"idle", "done"}
    /\ started < MaxRequests
    /\ started' = started + 1
    /\ LET a == Allow(client, 1, f1, f2) IN
       /\ cache' = a.cache
       /\ memB' = a.memB
       /\ redB' = a.redB
       /\ req' = [req EXCEPT ![r] = Gated(client, a.ret)]
    /\ UNCHANGED <<concVars, now, memC, redC, obs, storeKind, rlEnabled, beVars, lbVars,
                   healthVars>>

\* ServeHTTP of a proxy without a rate limiter: the request goes straight to the pick
ReqArrive(r) ==
    /\ ~rlEnabled
    /\ req[r].pc \in {"idle", "done"}
    /\ started < MaxRequests
    /\ started' = started + 1
    /\ req' = [req EXCEPT ![r] = [IdleReq EXCEPT !.pc = "pick"]]
    /\ UNCHANGED <<concVars, now, storeVars, obs, rlVars, beVars, lbVars, healthVars>>

\* NextBackend, first half: the snapshot of GetHealthyBackends
ReqSnapshot(r) ==
    /\ req[r].pc = "pick"
    /\ req' = [req EXCEPT ![r].pc = "snap", ![r].h = GetHealthyBackends]
    /\ UNCHANGED <<concVars, now, storeVars, obs, rlVars, beVars, lbVars, started, healthVars>>

\* NextBackend, second half: ErrNoBackends on an empty snapshot (ServeHTTP then
\* answers through the errorHandler), else the pick of the algorithm is returned
ReqSelect(r) ==
    /\ req[r].pc = "snap"
    /\ IF req[r].h = <<>>
       THEN /\ req' = [req EXCEPT ![r].pc = "done", ![r].status = 503,
                                  ![r].sent = ErrorHandlerStatus]
            /\ UNCHANGED <<cursor, picked>>
       ELSE /\ \E b \in Picks(req[r].h) :
                   /\ req' = [req EXCEPT ![r].pc = "selected", ![r].be = b]
                   /\ picked' = [picked EXCEPT ![b] = @ + 1]
            /\ cursor' = IF algo = "round_robin" THEN cursor + 1 ELSE cursor
    /\ UNCHANGED <<concVars, now, storeVars, obs, rlVars, beVars, registry, algo, started,
                   healthVars>>

\* backend.IncrementActiveConns(), and the request is forwarded
ReqForward(r) ==
    /\ req[r].pc = "selected"
    /\ active' = IncrementActiveConns(req[r].be)
    /\ req' = [req EXCEPT ![r].pc = "fwd"]
    /\ UNCHANGED <<concVars, now, storeVars, obs, rlVars, alive, fc, total, failed, lbVars,
                   started, healthVars>>

UpstreamOutcomes == {"ok", "status5xx", "transport"}

\* the forward ends: ModifyResponse on an upstream response, proxy.ErrorHandler on
\* a transport failure; then the deferred DecrementActiveConns
ReqUpstream(r, outcome) ==
    LET b == req[r].be IN
    /\ req[r].pc = "fwd"
    /\ total' = [total EXCEPT ![b] = @ + 1]
    /\ failed' = [failed EXCEPT ![b] = IF outcome = "ok" THEN @ ELSE @ + 1]
    /\ fc' = [fc EXCEPT ![b] = IF outcome = "transport" THEN @ + 1 ELSE @]
    /\ active' = DecrementActiveConns(b)
    /\ req' = [req EXCEPT ![r].pc = "done",
                          ![r].status = IF outcome = "ok" THEN 200
                                        ELSE IF outcome = "status5xx" THEN 500 ELSE 502,
                          ![r].sent = IF outcome = "ok" THEN 200
                                      ELSE IF outcome = "status5xx" THEN 500
                                      ELSE ErrorHandlerStatus]
    /\ UNCHANGED <<concVars, now, storeVars, obs, rlVars, alive, lbVars, started, healthVars>>

(* ------------------------- registry mutations -------------------------- *)
\* some reader holds the registry's RWMutex across more than one step
ReaderInside == \E b \in Backends : probes[b]["resetFc"] > 0

\* a removal that drops the last entry, whatever its URL
WithoutLast(s, x) == IF s = <<>> THEN <<>> ELSE SubSeq(s, 1, Len(s) - 1)

RECURSIVE Without(_, _)
Without(s, x) ==
    IF s = <<>> THEN <<>>
    ELSE IF Head(s) = x THEN Tail(s)
    ELSE <<Head(s)>> \o Without(Tail(s), x)

\* BaseBalancer.backends after RegisterBackend(b)
Registered(reg, b) == IF InSeq(b, reg) THEN reg ELSE Append(reg, b)

\* BaseBalancer.RegisterBackend
RegisterBackend(b) ==
    /\ ~ReaderInside
    /\ registry' = Registered(registry, b)
    /\ UNCHANGED <<concVars, now, storeVars, obs, rlVars, beVars, cursor, algo, picked, reqVars,
                   healthVars>>

\* BaseBalancer.RemoveBackend
RemoveBackend(b) ==
    /\ ~ReaderInside
    /\ registry' = Without(registry, b)
    /\ UNCHANGED <<concVars, now, storeVars, obs, rlVars, beVars, cursor, algo, picked, reqVars,
                   healthVars>>

(* ----------------------------- health loop ----------------------------- *)
InFlight(b) ==
    probes[b]["http"] + probes[b]["incr"] + probes[b]["load"] + probes[b]["markUp"]
    + probes[b]["resetFc"] + probes[b]["markDownThr"] + probes[b]["markDownDead"]

\* the probes with one probe of b moved from position p to position q
Moved(b, p, q) == [probes EXCEPT ![b] = [@ EXCEPT ![p] = @ - 1, ![q] = @ + 1]]
\* the probes with one probe of b at position p ended
Ended(b, p) == [probes EXCEPT ![b] = [@ EXCEPT ![p] = @ - 1]]

\* StartHealthChecks, one tick: a probe goroutine per backend of GetAllBackends
HealthTick ==
    /\ registry # <<>>
    /\ \A b \in Backends : InSeq(b, registry) => InFlight(b) < MaxInflight
    /\ probes' = [b \in Backends |->
                    IF InSeq(b, registry)
                    THEN [probes[b] EXCEPT !["http"] = @ + 1] ELSE probes[b]]
    /\ UNCHANGED <<concVars, now, storeVars, obs, rlVars, beVars, lbVars, reqVars, streak>>

\* HTTPHealthChecker.Check: the GET ends, healthy (2xx/3xx) or not; a healthy result
\* returns true; an unhealthy one returns false when the backend is not available
ProbeResult(b, healthy) ==
    /\ probes[b]["http"] > 0
    /\ streak' = [streak EXCEPT ![b] = IF healthy THEN 0 ELSE Min(Threshold, @ + 1)]
    /\ probes' = IF healthy THEN Moved(b, "http", "markUp")
                 ELSE IF alive[b] THEN Moved(b, "http", "incr")
                 ELSE Moved(b, "http", "markDownDead")
    /\ UNCHANGED <<concVars, now, storeVars, obs, rlVars, beVars, lbVars, reqVars>>

\* Check: backend.IncrementFailureCount()
ProbeIncr(b) ==
    /\ probes[b]["incr"] > 0
    /\ fc' = [fc EXCEPT ![b] = @ + 1]
    /\ probes' = Moved(b, "incr", "load")
    /\ UNCHANGED <<concVars, now, storeVars, obs, rlVars, alive, active, total, failed, lbVars,
                   reqVars, streak>>

\* what Check returns after its increment, having loaded failure count n
VerdictAt(n) == IF n >= Threshold THEN "markDownThr" ELSE "markUp"

\* Check: backend.FailureCount.Load() >= threshold decides what it returns
ProbeLoad(b) ==
    /\ probes[b]["load"] > 0
    /\ probes' = Moved(b, "load", VerdictAt(fc[b]))
    /\ UNCHANGED <<concVars, now, storeVars, obs, rlVars, beVars, lbVars, reqVars, streak>>

\* a MarkBackendUp that leaves the backend as it is
ProbeMarkUpIgnored(b) ==
    /\ probes[b]["markUp"] > 0
    /\ probes' = Ended(b, "markUp")
    /\ UNCHANGED <<concVars, now, storeVars, obs, rlVars, beVars, lbVars, reqVars, streak>>

\* Check returned true: balancer.MarkBackendUp; Backend.MarkUp stores IsAlive first
ProbeMarkUp(b) ==
    /\ probes[b]["markUp"] > 0
    /\ IF InSeq(b, registry)
       THEN /\ alive' = [alive EXCEPT ![b] = TRUE]
            /\ probes' = Moved(b, "markUp", "resetFc")
       ELSE /\ probes' = Ended(b, "markUp")
            /\ UNCHANGED alive
    /\ UNCHANGED <<concVars, now, storeVars, obs, rlVars, fc, active, total, failed, lbVars,
                   reqVars, streak>>

\* Backend.MarkUp, then: FailureCount.Store(0)
ProbeResetFc(b) ==
    /\ probes[b]["resetFc"] > 0
    /\ fc' = [fc EXCEPT ![b] = 0]
    /\ probes' = Ended(b, "resetFc")
    /\ UNCHANGED <<concVars, now, storeVars, obs, rlVars, alive, active, total, failed, lbVars,
                   reqVars, streak>>

\* Check returned false: balancer.MarkBackendDown
ProbeMarkDown(b, p) ==
    /\ p \in {"markDownThr", "markDownDead"}
    /\ probes[b][p] > 0
    /\ alive' = IF InSeq(b, registry) THEN [alive EXCEPT ![b] = FALSE] ELSE alive
    /\ probes' = Ended(b, p)
    /\ UNCHANGED <<concVars, now, storeVars, obs, rlVars, fc, active, total, failed, lbVars,
                   reqVars, streak>>

ProbeStep ==
    \/ \E b \in Backends, healthy \in BOOLEAN : ProbeResult(b, healthy)
    \/ \E b \in Backends : ProbeIncr(b)
    \/ \E b \in Backends : ProbeLoad(b)
    \/ \E b \in Backends : ProbeMarkUp(b)
    \/ \E b \in Backends : ProbeResetFc(b)
    \/ \E b \in Backends, p \in {"markDownThr", "markDownDead"} : ProbeMarkDown(b, p)

\* one request at a time goes through the proxy
ForwardStep ==
    \/ ReqSnapshot(1)
    \/ ReqSelect(1)
    \/ ReqForward(1)
    \/ \E o \in UpstreamOutcomes : ReqUpstream(1, o)

(* --------------------------- specifications ---------------------------- *)
\* the rate limiter's API over either Storage
RLInit ==
    \E kind \in {"memory", "redis"} : Constructed(kind, TRUE, <<"b1", "b2">>, "round_robin")

RLNext ==
    \/ AdvanceTime
    \/ \E k \in StoreKeys, n \in {0, 1, MaxCap}, f1 \in FaultsNow, f2 \in FaultsNow :
           AllowCall(k, n, f1, f2)
    \/ \E k \in StoreKeys, c \in {0, 1, MaxCap}, r \in {0, DefaultRefillRate},
          f \in FaultsNow : UpdateClientConfig(k, c, r, f)
    \/ \E k \in StoreKeys, f \in FaultsNow : DeleteClient(k, f)

SpecRL == RLInit /\ [][RLNext]_vars

\* the proxy with a rate limiter over either Storage; liveness of the backends is static
ProxyInit == RLInit

ProxyNext ==
    \/ AdvanceTime
    \/ \E k \in StoreKeys, f1 \in FaultsNow, f2 \in FaultsNow : ReqGate(1, k, f1, f2)
    \/ ForwardStep

SpecProxy == ProxyInit /\ [][ProxyNext]_vars

\* health loop and proxy over a fixed registry, no rate limiter
HealthInit == \E al \in Algorithms : Constructed("memory", FALSE, <<"b1", "b2">>, al)

HealthNext ==
    \/ HealthTick
    \/ ProbeStep
    \/ ReqArrive(1)
    \/ ForwardStep

SpecHealth == HealthInit /\ [][HealthNext]_vars

\* BaseBalancer.MarkBackendDown called as one operation
MarkBackendDown(b) ==
    /\ alive' = IF InSeq(b, registry) THEN [alive EXCEPT ![b] = FALSE] ELSE alive
    /\ UNCHANGED <<concVars, now, storeVars, obs, rlVars, fc, active, total, failed, lbVars,
                   reqVars, healthVars>>

\* BaseBalancer.MarkBackendUp called as one operation
MarkBackendUp(b) ==
    /\ alive' = IF InSeq(b, registry) THEN [alive EXCEPT ![b] = TRUE] ELSE alive
    /\ fc' = IF InSeq(b, registry) THEN [fc EXCEPT ![b] = 0] ELSE fc
    /\ UNCHANGED <<concVars, now, storeVars, obs, rlVars, active, total, failed, lbVars,
                   reqVars, healthVars>>

\* balancer with a changing registry under concurrent requests, the health loop
\* acting through MarkBackendDown and MarkBackendUp; no rate limiter
LBInit == \E al \in Algorithms : Constructed("memory", FALSE, <<"b1", "b2">>, al)

LBNext ==
    \/ \E b \in Backends : RegisterBackend(b)
    \/ \E b \in Backends : RemoveBackend(b)
    \/ \E b \in Backends : MarkBackendDown(b)
    \/ \E b \in Backends : MarkBackendUp(b)
    \/ \E r \in Reqs : ReqArrive(r)
    \/ \E r \in Reqs : ReqSnapshot(r)
    \/ \E r \in Reqs : ReqSelect(r)
    \/ \E r \in Reqs : ReqForward(r)
    \/ \E r \in Reqs, o \in UpstreamOutcomes : ReqUpstream(r, o)

SpecLB == LBInit /\ [][LBNext]_vars

(* ---------------- config resolution under concurrency ----------------- *)
\* what the Storage in use holds as the config of k (NoConfig when nothing)
StoredConfig(k) == IF storeKind = "memory" THEN memC[k] ELSE redC[k]

\* the pair a successful UpdateClientConfig left in the Storage, if any
UpdatedConfig(k) ==
    IF StoredConfig(k) = [capacity |-> 0, refillRate |-> 0] THEN NoConfig
    ELSE StoredConfig(k)

\* getClientConfig: the cache is consulted under the read lock; a hit returns
LookupStart(c, k) ==
    /\ lookups[c].pc \in {"idle", "done"}
    /\ started < MaxRequests
    /\ started' = started + 1
    /\ lookups' = [lookups EXCEPT ![c] =
                      IF cache[k] # NoConfig
                      THEN [pc |-> "done", client |-> k, hit |-> TRUE, cfg |-> cache[k],
                            err |-> "nil", want |-> UpdatedConfig(k)]
                      ELSE [pc |-> "miss", client |-> k, hit |-> FALSE, cfg |-> NoConfig,
                            err |-> "none", want |-> UpdatedConfig(k)]]
    /\ UNCHANGED <<now, storeVars, obs, rlVars, beVars, lbVars, req, healthVars,
                   mu, calls, granted, supplied>>

\* getClientConfig on a miss: storage.GetClientConfig with no lock held, then the
\* fallback to the default pair
LookupRead(c, f) ==
    LET g == StorageGetConfig(storeKind, lookups[c].client, f) IN
    /\ lookups[c].pc = "miss"
    /\ lookups' = [lookups EXCEPT ![c] =
                      IF g.err # "nil"
                      THEN [@ EXCEPT !.pc = "done", !.err = g.err]
                      ELSE [@ EXCEPT !.pc = "read",
                                     !.cfg = IF g.cfg.capacity = 0 \/ g.cfg.refillRate = 0
                                             THEN DefaultConfig ELSE g.cfg]]
    /\ UNCHANGED <<now, storeVars, obs, rlVars, beVars, lbVars, reqVars, healthVars,
                   mu, calls, granted, supplied>>

\* getClientConfig on a miss: the resolved pair is cached under the write lock
LookupStore(c) ==
    /\ lookups[c].pc = "read"
    /\ cache' = [cache EXCEPT ![lookups[c].client] = lookups[c].cfg]
    /\ lookups' = [lookups EXCEPT ![c].pc = "done", ![c].err = "nil"]
    /\ UNCHANGED <<now, storeVars, obs, storeKind, rlEnabled, beVars, lbVars, reqVars,
                   healthVars, mu, calls, granted, supplied>>

CfgInit == RLInit

CfgNext ==
    \/ \E c \in Reqs, k \in StoreKeys : LookupStart(c, k)
    \/ \E c \in Reqs, f \in FaultsNow : LookupRead(c, f)
    \/ \E c \in Reqs : LookupStore(c)
    \/ \E k \in StoreKeys, c \in {1, MaxCap}, f \in FaultsNow :
           UpdateClientConfig(k, c, DefaultRefillRate, f)

SpecCfg == CfgInit /\ [][CfgNext]_vars

(* ------------- NextBackend called directly on the balancer ------------- *)
\* a caller other than ServeHTTP starts a NextBackend call
NextBackendCall(r) ==
    /\ req[r].pc \in {"idle", "selected"}
    /\ started < MaxPicks
    /\ started' = started + 1
    /\ req' = [req EXCEPT ![r] = [IdleReq EXCEPT !.pc = "pick"]]
    /\ UNCHANGED <<concVars, now, storeVars, obs, rlVars, beVars, lbVars, healthVars>>

\* round-robin over a healthy set that does not change, concurrent callers
RRInit ==
    \E reg \in {<<"b1">>, <<"b1", "b2">>, <<"b2", "b1">>} :
        Constructed("memory", FALSE, reg, "round_robin")

RRNext ==
    \/ \E r \in Reqs : NextBackendCall(r)
    \/ \E r \in Reqs : ReqSnapshot(r)
    \/ \E r \in Reqs : ReqSelect(r)

SpecRR == RRInit /\ [][RRNext]_vars

(* ------------------- concurrent TakeTokens on one key ------------------ *)
ConcKey == "c1"

\* a mutex that excludes nobody
MuNeverHeld(m) == TRUE

\* MemoryStorage.mu can be acquired
MuFree(m) == m = 0

\* history: the tokens a take's refill put into bucket pre, given its result res
Refilled(pre, res, n) ==
    (res.bucket.tokens + (IF res.allowed THEN n ELSE 0)) - pre.tokens

\* the key's bucket holds MaxCap tokens (a first take of more than the capacity was
\* denied at time 0); every caller passes the limiter's cached config for the key
ConcInit ==
    \E kind \in {"memory", "redis"}, r \in {0, DefaultRefillRate} :
        LET full == [tokens |-> MaxCap, lastRefill |-> 0] IN
        /\ now = 0
        /\ memB = [k \in Keys |-> IF k = ConcKey /\ kind = "memory" THEN full ELSE NoBucket]
        /\ redB = [k \in Keys |-> IF k = ConcKey /\ kind = "redis" THEN full ELSE NoBucket]
        /\ memC = [k \in Keys |-> NoConfig]
        /\ redC = [k \in Keys |-> NoConfig]
        /\ obs = NoObs
        /\ storeKind = kind
        /\ cache = [k \in Keys |-> IF k = ConcKey
                                   THEN [capacity |-> MaxCap, refillRate |-> r]
                                   ELSE NoConfig]
        /\ rlEnabled = TRUE
        /\ registry = <<"b1", "b2">>
        /\ alive = [b \in Backends |-> TRUE]
        /\ fc = [b \in Backends |-> 0]
        /\ active = [b \in Backends |-> 0]
        /\ total = [b \in Backends |-> 0]
        /\ failed = [b \in Backends |-> 0]
        /\ cursor = 0
        /\ algo = "round_robin"
        /\ req = [q \in Reqs |-> IdleReq]
        /\ started = 0
        /\ probes = [b \in Backends |-> [p \in ProbePCs |-> 0]]
        /\ streak = [b \in Backends |-> 0]
        /\ mu = 0
        /\ calls = [c \in Reqs |-> IdleCall]
        /\ granted = 0
        /\ supplied = MaxCap
        /\ picked = [b \in Backends |-> 0]
        /\ lookups = [c \in Reqs |-> IdleLookup]

\* MemoryStorage.TakeTokens: s.mu.Lock()
TakeLock(c, n) ==
    /\ storeKind = "memory"
    /\ calls[c].pc = "idle"
    /\ started < MaxRequests
    /\ MuFree(mu)
    /\ mu' = c
    /\ started' = started + 1
    /\ calls' = [calls EXCEPT ![c] = [IdleCall EXCEPT !.pc = "locked", !.n = n]]
    /\ UNCHANGED <<now, storeVars, obs, rlVars, beVars, lbVars, req, healthVars,
                   granted, supplied, lookups>>

\* MemoryStorage.TakeTokens: time.Now(), the bucket is read, refill and take computed
TakeRead(c) ==
    LET t == MemTake(memB[ConcKey], now, calls[c].n, cache[ConcKey].capacity,
                     cache[ConcKey].refillRate) IN
    /\ calls[c].pc = "locked"
    /\ calls' = [calls EXCEPT ![c].pc = "computed", ![c].at = now,
                              ![c].seen = memB[ConcKey], ![c].res = t.bucket,
                              ![c].allowed = t.allowed, ![c].remaining = t.remaining,
                              ![c].add = Refilled(memB[ConcKey], t, calls[c].n)]
    /\ UNCHANGED <<now, storeVars, obs, rlVars, beVars, lbVars, reqVars, healthVars,
                   mu, granted, supplied, lookups>>

\* MemoryStorage.TakeTokens: the bucket's fields are stored, the deferred Unlock runs
TakeWrite(c) ==
    /\ calls[c].pc = "computed"
    /\ memB' = [memB EXCEPT ![ConcKey] = calls[c].res]
    /\ mu' = 0
    /\ granted' = granted + (IF calls[c].allowed THEN calls[c].n ELSE 0)
    /\ supplied' = supplied + calls[c].add
    /\ calls' = [calls EXCEPT ![c].pc = "idle"]
    /\ UNCHANGED <<now, memC, redB, redC, obs, rlVars, beVars, lbVars, reqVars,
                   healthVars, lookups>>

\* RedisStorage.TakeTokens: now := time.Now().UnixMilli(), then the script is sent
TakeStamp(c, n) ==
    /\ storeKind = "redis"
    /\ calls[c].pc = "idle"
    /\ started < MaxRequests
    /\ started' = started + 1
    /\ calls' = [calls EXCEPT ![c] = [IdleCall EXCEPT !.pc = "sent", !.n = n, !.at = now]]
    /\ UNCHANGED <<now, storeVars, obs, rlVars, beVars, lbVars, req, healthVars,
                   mu, granted, supplied, lookups>>

\* the server runs tokenBucketScript with the caller's timestamp, in one step
TakeScript(c) ==
    LET t == RedisScript(redB[ConcKey], calls[c].at, calls[c].n, cache[ConcKey].capacity,
                         cache[ConcKey].refillRate) IN
    /\ calls[c].pc = "sent"
    /\ redB' = [redB EXCEPT ![ConcKey] = t.bucket]
    /\ granted' = granted + (IF t.allowed THEN calls[c].n ELSE 0)
    /\ supplied' = supplied + Refilled(redB[ConcKey], t, calls[c].n)
    /\ calls' = [calls EXCEPT ![c].pc = "idle", ![c].seen = redB[ConcKey],
                              ![c].res = t.bucket, ![c].allowed = t.allowed,
                              ![c].remaining = t.remaining,
                              ![c].add = Refilled(redB[ConcKey], t, calls[c].n)]
    /\ UNCHANGED <<now, memB, memC, redC, obs, rlVars, beVars, lbVars, reqVars,
                   healthVars, mu, lookups>>

ConcNext ==
    \/ AdvanceTime
    \/ \E c \in Reqs, n \in Takes : TakeLock(c, n)
    \/ \E c \in Reqs : TakeRead(c)
    \/ \E c \in Reqs : TakeWrite(c)
    \/ \E c \in Reqs, n \in Takes : TakeStamp(c, n)
    \/ \E c \in Reqs : TakeScript(c)

SpecConc == ConcInit /\ [][ConcNext]_vars

(* ------------------------- storage properties -------------------------- *)
\* C4: after every take_tokens call with n > 0 the stored token count and the
\* returned remaining lie within 0..capacity, capacity being the value passed to
\* that call, also when the capacity passed for the key changed between calls.
C4_TokensWithinCapacity ==
    obs.op = "take" =>
        /\ 0 <= memB[obs.key].tokens /\ memB[obs.key].tokens <= obs.capacity
        /\ 0 <= obs.mem.remaining /\ obs.mem.remaining <= obs.capacity
        /\ 0 <= redB[obs.key].tokens /\ redB[obs.key].tokens <= obs.capacity
        /\ 0 <= obs.red.remaining /\ obs.red.remaining <= obs.capacity

\* the reference take_tokens of the specification (section 4.1)
RefTake(bucket, at, n, capacity, refillRate) ==
    LET add == IF bucket = NoBucket THEN 0
               ELSE (Ms(Max(0, at - bucket.lastRefill)) * refillRate) \div 1000
        tokens1 == IF bucket = NoBucket THEN capacity
                   ELSE Min(capacity, bucket.tokens + add)
        last1 == IF bucket = NoBucket \/ add > 0 THEN at ELSE bucket.lastRefill
    IN IF tokens1 >= n
       THEN [bucket |-> [tokens |-> tokens1 - n, lastRefill |-> last1],
             allowed |-> TRUE, remaining |-> tokens1 - n]
       ELSE [bucket |-> [tokens |-> tokens1, lastRefill |-> last1],
             allowed |-> FALSE, remaining |-> tokens1]

\* C5: MemoryStorage.TakeTokens equals the reference operator for every input and
\* every prior bucket state: the bucket it leaves and the (allowed, remaining) it
\* returns are those of RefTake applied to the bucket it found.
C5_MemoryTakeIsReference ==
    obs.op = "take" =>
        LET ref == RefTake(obs.memPre, obs.at, obs.n, obs.capacity, obs.refillRate) IN
        /\ memB[obs.key] = ref.bucket
        /\ obs.mem = [allowed |-> ref.allowed, remaining |-> ref.remaining]

\* C7: the in-process and the networked implementation return the same results
\* for the same calls at the same timestamps.
C7_ImplementationsEquivalent ==
    obs.op \in {"take", "get"} => obs.mem = obs.red

(* ------------------------- limiter properties -------------------------- *)
\* C9: Allow with n > 0 reports a policy denial as (false, remaining,
\* ErrRateLimitExceeded) with remaining the bucket's token count (fewer than n),
\* an infrastructure failure as (false, 0, err) with err not ErrRateLimitExceeded
\* and the bucket untouched, and success as (true, remaining, nil) with remaining
\* the bucket's token count.
C9_AllowTellsDenialFromFailure ==
    (obs.op = "allow" /\ obs.n > 0) =>
        \/ /\ obs.ret.allowed
           /\ obs.ret.err = "nil"
           /\ obs.ret.remaining = obs.stored
        \/ /\ ~obs.ret.allowed
           /\ obs.ret.err = "ErrRateLimitExceeded"
           /\ obs.ret.remaining = obs.stored
           /\ obs.stored < obs.n
        \/ /\ ~obs.ret.allowed
           /\ obs.ret.err \in {"other", "conn", "ctx"}
           /\ obs.ret.remaining = 0
           /\ obs.stored = obs.pre

\* a take of more tokens than the bucket holds was denied with tokens left over
C9_DenialReported ==
    /\ obs.op = "allow"
    /\ obs.n > 0
    /\ obs.ret.err = "ErrRateLimitExceeded"
    /\ obs.ret.remaining >= 1

(* -------------------------- proxy properties --------------------------- *)
\* the limiter's answer to request r was a policy denial
Denied(r) == ~req[r].gate.allowed /\ req[r].gate.err = "ErrRateLimitExceeded"
\* the limiter's answer to request r was an infrastructure error
InfraError(r) == req[r].gate.err \in {"other", "conn", "ctx"}
\* request r never reached the balancer or a backend
NotForwarded(r) == req[r].h = <<>> /\ req[r].be = NoBackend /\ req[r].pc = "done"

\* C8: a request the rate limiter denies is answered with status 429, the header
\* X-RateLimit-Remaining set to the remaining token count and Retry-After set
\* to 1, and it is not forwarded.
C8_DenialAnswered429 ==
    \A r \in Reqs :
        Denied(r) =>
            /\ req[r].sent = 429
            /\ req[r].hdrRemaining = req[r].gate.remaining
            /\ req[r].hdrRetryAfter = 1
            /\ NotForwarded(r)

\* C10: a request for which the rate limiter returns an infrastructure error is
\* answered with status 500, and no backend is selected or contacted for it.
C10_InfraErrorAnswered500 ==
    \A r \in Reqs :
        InfraError(r) => (req[r].sent = 500 /\ NotForwarded(r))

(* ------------------------- balancer properties ------------------------- *)
\* C1: under each algorithm, the backend NextBackend returns is alive at the moment
\* it is returned, whatever MarkBackendDown/MarkBackendUp and
\* RegisterBackend/RemoveBackend calls interleave with the selection.
C1_NeverReturnsDownBackend ==
    [][\A r \in Reqs :
          (req[r].pc = "snap" /\ req'[r].pc = "selected") => alive'[req'[r].be]]_vars

(* -------------------------- health properties -------------------------- *)
\* C2: with threshold 3, once the probes of a backend have returned unhealthy on
\* 3 consecutive ticks and the last of them has finished, the backend is DOWN; and
\* once a probe that returned healthy has finished (no proxied request to the
\* backend having ended), the backend is UP with failure count 0.
C2_DownAfterThreeFailuresUpAfterOk ==
    \A b \in Backends :
        /\ (InFlight(b) = 0 /\ streak[b] >= Threshold) => ~alive[b]
        /\ (InFlight(b) = 0 /\ streak[b] = 0 /\ total[b] = 0) => (alive[b] /\ fc[b] = 0)

\* C3: the health loop takes a backend from UP to DOWN only when at least
\* threshold (3) consecutive probes of it have returned unhealthy, also while
\* proxied requests to it succeed or fail.
C3_DownOnlyAfterThresholdProbes ==
    [][\A b \in Backends : (alive[b] /\ ~alive'[b]) => streak[b] >= Threshold]_vars

C11_TransportFailureAnswered502 ==
    [][\A r \in Reqs :
          (req[r].pc = "fwd" /\ req'[r].pc = "done" /\ req'[r].status = 502) =>
              /\ fc'[req[r].be] = fc[req[r].be] + 1
              /\ total'[req[r].be] = total[req[r].be] + 1
              /\ failed'[req[r].be] = failed[req[r].be] + 1
              /\ req'[r].sent = 502]_vars

(* ---------------------- selection properties --------------------------- *)
\* no registered backend is UP
NoneHealthy == \A i \in 1..Len(registry) : ~alive[registry[i]]

\* C12: under each algorithm NextBackend fails with ErrNoBackends exactly when the
\* healthy set it read is empty (nothing registered, or every registered backend
\* DOWN); the proxy then answers 503 and leaves every backend's active, total,
\* failed and failure counts as they were.
C12_ErrNoBackendsIffNoneHealthy ==
    [][\A r \in Reqs :
          /\ (req[r].pc = "pick" /\ req'[r].pc = "snap") =>
                 ((req'[r].h = <<>>) <=> NoneHealthy)
          /\ (req[r].pc = "snap" /\ req'[r].pc # "snap") =>
                 /\ (req'[r].pc = "done" /\ req'[r].be = NoBackend) <=> (req[r].h = <<>>)
                 /\ (req[r].h = <<>>) =>
                        /\ req'[r].status = 503
                        /\ req'[r].sent = 503
                        /\ UNCHANGED <<active, total, failed, fc>>]_vars

\* a request found every registered backend DOWN and was answered 503
C12_AllDownAnswered503 ==
    \E r \in Reqs :
        /\ req[r].pc = "done"
        /\ req[r].be = NoBackend
        /\ req[r].sent = 503
        /\ registry # <<>>
        /\ algo = "random"

\* C13: round-robin over a healthy set of size k that does not change: after any
\* k*m NextBackend calls, sequential or concurrent, each member has been returned
\* exactly m times; every call takes the next cursor value and returns
\* H[cursor mod k], so the picks follow from the cursor's starting value.
C13_RoundRobinVisitsEachEqually ==
    LET k == Len(registry) IN
    \A i \in 1..k :
        /\ picked[registry[i]] = Cardinality({j \in 1..cursor : j % k = i - 1})
        /\ (cursor % k = 0) => picked[registry[i]] = cursor \div k

\* two rounds over both backends are complete
C13_TwoRoundsDone ==
    /\ cursor = 2 * Len(registry)
    /\ \A r \in Reqs : req[r].pc = "selected"
    /\ picked["b1"] = 2
    /\ picked["b2"] = 2

\* C14: least-connections returns a healthy backend with the minimum active
\* connections and, among those tied for the minimum, the one registered first
\* (the healthy set lists the backends in registration order).
C14_LeastConnectionsPicksFirstMinimum ==
    [][\A r \in Reqs :
          (algo = "least_connections" /\ req[r].pc = "snap" /\ req'[r].pc = "selected") =>
              \E i \in 1..Len(req[r].h) :
                  /\ req'[r].be = req[r].h[i]
                  /\ \A m \in 1..Len(req[r].h) : active[req[r].h[i]] <= active[req[r].h[m]]
                  /\ \A m \in 1..(i - 1) : active[req[r].h[m]] > active[req[r].h[i]]]_vars

\* the busier first backend was passed over for the second
C14_SecondPickedOverBusierFirst ==
    \E r \in Reqs :
        /\ algo = "least_connections"
        /\ req[r].pc = "selected"
        /\ Len(req[r].h) = 2
        /\ req[r].be = req[r].h[2]
        /\ active[req[r].h[1]] > active[req[r].h[2]]

(* ---------------------- client config properties ----------------------- *)
\* C15: an Allow that starts after a successful UpdateClientConfig(client, c, r)
\* has returned resolves the client's config to (c, r), whatever other Allow calls
\* for the client were resolving the config when the update ran.
C15_UpdateSeenByLaterAllow ==
    \A c \in Reqs :
        (lookups[c].pc # "idle" /\ lookups[c].want # NoConfig) =>
            (lookups[c].hit /\ lookups[c].cfg = lookups[c].want)

\* C16: once a client's config has been deleted, the limiter's cache holds no
\* custom pair for the client, so every later Allow for it runs with the default
\* capacity and refill rate.
C16_DeleteInvalidatesCache ==
    \A k \in Keys :
        UpdatedConfig(k) = NoConfig => cache[k] \in {NoConfig, DefaultConfig}

\* the pair getClientConfig resolves from what the Storage holds for k
ResolvedFromStore(k) ==
    IF StoredConfig(k) \in {NoConfig, [capacity |-> 0, refillRate |-> 0]}
    THEN DefaultConfig ELSE StoredConfig(k)

\* C19: config resolution returns the cached pair on a hit and leaves the cache as
\* it is; on a miss it reads the Storage, resolves the stored pair when one is set
\* and the default pair when the Storage returns (0,0), and caches that pair; when
\* the read fails it returns the error and adds no cache entry.
C19_ConfigResolution ==
    [][\A c \in Reqs :
          LET k == lookups'[c].client IN
          /\ (lookups[c].pc \in {"idle", "done"} /\ lookups'[c] # lookups[c]) =>
                 /\ lookups'[c].hit <=> cache[k] # NoConfig
                 /\ lookups'[c].hit =>
                        /\ lookups'[c].pc = "done"
                        /\ lookups'[c].err = "nil"
                        /\ lookups'[c].cfg = cache[k]
                 /\ cache' = cache
          /\ (lookups[c].pc = "miss" /\ lookups'[c].pc = "read") =>
                 /\ lookups'[c].cfg = ResolvedFromStore(k)
                 /\ cache' = cache
          /\ (lookups[c].pc = "miss" /\ lookups'[c].pc = "done") =>
                 /\ lookups'[c].err \in {"other", "conn", "ctx"}
                 /\ cache' = cache
          /\ (lookups[c].pc = "read" /\ lookups'[c].pc = "done") =>
                 /\ lookups'[c].err = "nil"
                 /\ cache'[k] = lookups[c].cfg]_vars

\* a miss resolved the pair an earlier update stored, and cached it
C19_StoredPairResolved ==
    \E c \in Reqs :
        /\ lookups[c].pc = "done"
        /\ ~lookups[c].hit
        /\ lookups[c].err = "nil"
        /\ lookups[c].cfg = [capacity |-> MaxCap, refillRate |-> DefaultRefillRate]
        /\ cache[lookups[c].client] = lookups[c].cfg

C18_UpdateThenGetReturnsPair ==
    (obs.op = "update" /\ obs.err = "nil") =>
        LET pair == [capacity |-> obs.capacity, refillRate |-> obs.refillRate] IN
        /\ obs.capacity > 0
        /\ obs.refillRate > 0
        /\ StorageGetConfig(storeKind, obs.key, NoFault) = [cfg |-> pair, err |-> "nil"]
        /\ cache[obs.key] = pair

\* an update to the largest capacity succeeded on the networked store
C18_UpdateSucceededOnRedis ==
    /\ obs.op = "update"
    /\ obs.err = "nil"
    /\ obs.capacity = MaxCap
    /\ storeKind = "redis"

\* C20: Allow(client, n) with n <= 0 returns (true, 0, nil) whatever the state of
\* the connection to the Storage, and changes no bucket, no stored config and no
\* cache entry.
C20_ZeroTokensAlwaysAllowed ==
    [][(obs'.op = "allow" /\ obs'.n <= 0) =>
          /\ obs'.ret = [allowed |-> TRUE, remaining |-> 0, err |-> "nil"]
          /\ UNCHANGED <<memB, redB, memC, redC, cache>>]_vars

\* a zero-token Allow was answered for a client with no cache entry, on the
\* networked store
C20_ZeroAllowOnUncachedClient ==
    /\ obs.op = "allow"
    /\ obs.n = 0
    /\ storeKind = "redis"
    /\ cache[obs.key] = NoConfig

(* --------------------- zero-token Allow properties --------------------- *)
\* C21: Allow(client, 0) returns (true, t, nil) with t the number of tokens in the
\* client's bucket (at least the count stored, which a refill can only raise) and
\* leaves the bucket as it is; tokens_remaining of GET /client-status is that t.
C21_ZeroAllowReportsTokens ==
    (obs.op = "allow" /\ obs.n = 0 /\ obs.pre >= 0) =>
        /\ obs.ret.allowed
        /\ obs.ret.err = "nil"
        /\ obs.ret.remaining >= obs.pre
        /\ obs.stored = obs.pre

(* ---------------------- backend counter properties --------------------- *)
\* the requests that are being forwarded to backend b
InFlightTo(b) == {r \in Reqs : req[r].pc = "fwd" /\ req[r].be = b}

\* C22: every backend's active connections are never negative; the proxy adds one
\* when it forwards a request to the selected backend and takes one off on every
\* exit of that request (success, upstream error status, transport failure), so
\* the count equals the requests in flight to the backend and is 0 when none is.
C22_ActiveConnsCountInFlight ==
    \A b \in Backends :
        /\ active[b] >= 0
        /\ active[b] = Cardinality(InFlightTo(b))

\* one request ended in a transport failure and one in an upstream error status,
\* and nothing is in flight
C22_FailedRequestsLeft ==
    \E r, q \in Reqs :
        /\ req[r].pc = "done" /\ req[r].status = 502 /\ req[r].be # NoBackend
        /\ req[q].pc = "done" /\ req[q].status = 500 /\ req[q].be = req[r].be
        /\ active[req[r].be] = 0

(* ------------- the proxy's bookkeeping, one atomic add at a time ------- *)
\* a RecordRequest that adds to the failed count before the total
RecordRequestFailedFirst(b, pc, success) ==
    IF pc = "addTotal"
    THEN IF success
         THEN [total |-> [total EXCEPT ![b] = @ + 1], failed |-> failed, next |-> "return"]
         ELSE [total |-> total, failed |-> [failed EXCEPT ![b] = @ + 1],
               next |-> "addFailed"]
    ELSE [total |-> [total EXCEPT ![b] = @ + 1], failed |-> failed, next |-> "return"]

\* a RecordRequest that counts every request as failed
RecordRequestAlwaysFailed(b, pc, success) ==
    IF pc = "addTotal"
    THEN [total |-> [total EXCEPT ![b] = @ + 1], failed |-> failed, next |-> "addFailed"]
    ELSE [total |-> total, failed |-> [failed EXCEPT ![b] = @ + 1], next |-> "return"]

\* Backend.RecordRequest(success) on backend b: the counters after the atomic add
\* at position pc, and the position that follows
RecordRequest(b, pc, success) ==
    IF pc = "addTotal"
    THEN [total |-> [total EXCEPT ![b] = @ + 1], failed |-> failed,
          next |-> IF success THEN "return" ELSE "addFailed"]
    ELSE [total |-> total, failed |-> [failed EXCEPT ![b] = @ + 1], next |-> "return"]

\* statusCode as ModifyResponse / proxy.ErrorHandler set it for an outcome
StatusOf(outcome) ==
    IF outcome = "ok" THEN 200 ELSE IF outcome = "status5xx" THEN 500 ELSE 502

\* the forward ends: ModifyResponse (upstream response) or proxy.ErrorHandler
\* (transport failure) sets statusCode and is about to call RecordRequest
ReqOutcome(r, outcome) ==
    /\ req[r].pc = "fwd"
    /\ req' = [req EXCEPT ![r].pc = "addTotal", ![r].status = StatusOf(outcome)]
    /\ UNCHANGED <<concVars, now, storeVars, obs, rlVars, beVars, lbVars, started,
                   healthVars>>

\* one atomic add of RecordRequest; ModifyResponse passes success = statusCode < 500,
\* proxy.ErrorHandler passes false and goes on to IncrementFailureCount
ReqRecord(r) ==
    LET b == req[r].be
        rec == RecordRequest(b, req[r].pc, req[r].status < 500)
    IN /\ req[r].pc \in {"addTotal", "addFailed"}
       /\ total' = rec.total
       /\ failed' = rec.failed
       /\ req' = [req EXCEPT ![r].pc = IF rec.next # "return" THEN rec.next
                                       ELSE IF req[r].status = 502 THEN "incrFc"
                                       ELSE "exit"]
       /\ UNCHANGED <<concVars, now, storeVars, obs, rlVars, alive, fc, active, lbVars,
                      started, healthVars>>

\* a proxy.ErrorHandler that sends the request back to the balancer
ReqIncrFailureRetrying(r) ==
    /\ req[r].pc = "incrFc"
    /\ fc' = [fc EXCEPT ![req[r].be] = @ + 1]
    /\ req' = [req EXCEPT ![r].pc = "pick"]
    /\ UNCHANGED <<concVars, now, storeVars, obs, rlVars, alive, active, total, failed,
                   lbVars, started, healthVars>>

\* proxy.ErrorHandler: backend.IncrementFailureCount(), then p.errorHandler answers
ReqIncrFailure(r) ==
    /\ req[r].pc = "incrFc"
    /\ fc' = [fc EXCEPT ![req[r].be] = @ + 1]
    /\ req' = [req EXCEPT ![r].pc = "exit", ![r].sent = ErrorHandlerStatus]
    /\ UNCHANGED <<concVars, now, storeVars, obs, rlVars, alive, active, total, failed,
                   lbVars, started, healthVars>>

\* the response is written and the deferred DecrementActiveConns runs
ReqExit(r) ==
    /\ req[r].pc = "exit"
    /\ active' = DecrementActiveConns(req[r].be)
    /\ req' = [req EXCEPT ![r].pc = "done",
                          ![r].sent = IF req[r].status = 502 THEN @ ELSE req[r].status]
    /\ UNCHANGED <<concVars, now, storeVars, obs, rlVars, alive, fc, total, failed,
                   lbVars, started, healthVars>>

\* two concurrent requests through a proxy with a rate limiter over the in-process
\* store, backends going DOWN and UP meanwhile
RecInit == \E al \in Algorithms : Constructed("memory", TRUE, <<"b1", "b2">>, al)

RecNext ==
    \/ \E r \in Reqs, k \in Keys : ReqGate(r, k, NoFault, NoFault)
    \/ \E b \in Backends : MarkBackendDown(b)
    \/ \E b \in Backends : MarkBackendUp(b)
    \/ \E r \in Reqs : ReqSnapshot(r)
    \/ \E r \in Reqs : ReqSelect(r)
    \/ \E r \in Reqs : ReqForward(r)
    \/ \E r \in Reqs, o \in UpstreamOutcomes : ReqOutcome(r, o)
    \/ \E r \in Reqs : ReqRecord(r)
    \/ \E r \in Reqs : ReqIncrFailure(r)
    \/ \E r \in Reqs : ReqExit(r)

SpecRec == RecInit /\ [][RecNext]_vars

\* C23: under any interleaving of concurrent RecordRequest calls every backend has
\* failed_requests <= total_requests; a call adds exactly 1 to the total, and
\* exactly 1 to the failed count when success is false and nothing otherwise; no
\* other step changes the two counters, so neither ever decreases.
C23_FailedNeverExceedsTotal ==
    [][/\ \A b \in Backends :
              /\ failed'[b] <= total'[b]
              /\ total'[b] >= total[b]
              /\ failed'[b] >= failed[b]
       /\ \A r \in Reqs :
              LET b == req[r].be IN
              /\ (req[r].pc = "addTotal" /\ req'[r].pc # "addTotal") =>
                     /\ total' = [total EXCEPT ![b] = @ + 1]
                     /\ failed' = failed
                     /\ (req'[r].pc = "addFailed") <=> ~(req[r].status < 500)
              /\ (req[r].pc = "addFailed" /\ req'[r].pc # "addFailed") =>
                     /\ failed' = [failed EXCEPT ![b] = @ + 1]
                     /\ total' = total
       /\ (\A r \in Reqs : req[r].pc \in {"addTotal", "addFailed"} => req'[r] = req[r]) =>
              UNCHANGED <<total, failed>>]_vars

\* two failing calls on one backend overlap: both have added to the total and
\* neither has added to the failed count yet
C23_TwoFailuresHalfRecorded ==
    \E b \in Backends :
        /\ \A r \in Reqs : req[r].pc = "addFailed" /\ req[r].be = b
        /\ total[b] = 2
        /\ failed[b] = 0

\* the requests NextBackend returned b for that have not been recorded yet
Unrecorded(b) ==
    {r \in Reqs : req[r].be = b /\ req[r].pc \in {"selected", "fwd", "addTotal"}}

Stage(pc) ==
    CASE pc = "idle" -> 0
      [] pc = "pick" -> 1
      [] pc = "snap" -> 2
      [] pc = "selected" -> 3
      [] pc = "fwd" -> 4
      [] pc = "addTotal" -> 5
      [] pc = "addFailed" -> 6
      [] pc = "incrFc" -> 7
      [] pc = "exit" -> 8
      [] pc = "done" -> 9

\* C25: the proxy never retries: a request only moves forward through ServeHTTP, so
\* it calls NextBackend at most once and forwards at most once; the backend chosen
\* for it stays its backend; a failed forward ends the request with the error
\* answer; NextBackend has returned a backend at most once per accepted request.
C25_NoRetry ==
    [][/\ picked'["b1"] + picked'["b2"] <= started'
       /\ started' = started =>
              \A r \in Reqs :
                  /\ Stage(req'[r].pc) >= Stage(req[r].pc)
                  /\ req'[r].be # req[r].be => (req[r].pc = "snap" /\ req[r].be = NoBackend)
                  /\ (req[r].status = 502 /\ req'[r].pc # req[r].pc) =>
                         /\ req'[r].pc \in {"addFailed", "incrFc", "exit", "done"}
                         /\ req'[r].status = 502
                  /\ (req[r].status = 502 /\ req[r].pc = "exit" /\ req'[r].pc = "done") =>
                         req'[r].sent = ErrorHandlerStatus]_vars

\* a forward to one backend failed at the transport and the request ended with the
\* error answer, the other backend being UP and never contacted
C25_FailedWhileOtherBackendUp ==
    \E r \in Reqs, b \in Backends :
        /\ req[r].pc = "done" /\ req[r].status = 502 /\ req[r].sent = ErrorHandlerStatus
        /\ b # req[r].be
        /\ InSeq(b, registry) /\ alive[b]
        /\ picked[b] = 0 /\ total[b] = 0 /\ active[b] = 0

(* ------------------------ the registry on its own ---------------------- *)
\* the backend lists a configuration can give BalancerFactory: one or two entries,
\* the same URL twice included
ConfiguredBackends ==
    {<<a>> : a \in Backends} \cup {<<a, b>> : a \in Backends, b \in Backends}

\* RegisterBackend, called by an administrator of the balancer
RegisterCall(b) ==
    /\ registry' = Registered(registry, b)
    /\ obs' = [op |-> "register", be |-> b, pre |-> registry]
    /\ UNCHANGED <<concVars, now, storeVars, rlVars, beVars, cursor, algo, picked, reqVars,
                   healthVars>>

\* RemoveBackend, called by an administrator of the balancer
RemoveCall(b) ==
    /\ registry' = Without(registry, b)
    /\ obs' = [op |-> "remove", be |-> b, pre |-> registry]
    /\ UNCHANGED <<concVars, now, storeVars, rlVars, beVars, cursor, algo, picked, reqVars,
                   healthVars>>

\* the balancer BalancerFactory builds over a configured list, then registrations,
\* removals and selections; every backend stays UP
RegInit ==
    \E reg \in ConfiguredBackends, al \in Algorithms : Constructed("memory", FALSE, reg, al)

RegNext ==
    \/ \E b \in Backends : RegisterCall(b)
    \/ \E b \in Backends : RemoveCall(b)
    \/ NextBackendCall(1)
    \/ ReqSnapshot(1)
    \/ ReqSelect(1)

SpecReg == RegInit /\ [][RegNext]_vars

\* C26: no two registered backends have the same URL, in every state: for the list
\* given at construction (a configuration naming one URL twice included) and after
\* any RegisterBackend and RemoveBackend calls.
C26_NoDuplicateURLs ==
    \A i, j \in 1..Len(registry) : i # j => registry[i] # registry[j]

\* sequence s with the entry at index i taken out
Dropped(s, i) == SubSeq(s, 1, i - 1) \o SubSeq(s, i + 1, Len(s))

\* C27: RegisterBackend of a URL already registered leaves the registry as it is
\* and of a new URL appends it at the end; RemoveBackend takes out a backend with
\* the matching URL and keeps the others in their order; RemoveBackend of a URL
\* that is not registered leaves the registry as it is.
C27_RegisterAndRemoveEffects ==
    /\ obs.op = "register" =>
           IF InSeq(obs.be, obs.pre) THEN registry = obs.pre
           ELSE registry = Append(obs.pre, obs.be)
    /\ obs.op = "remove" =>
           IF InSeq(obs.be, obs.pre)
           THEN \E i \in 1..Len(obs.pre) :
                    obs.pre[i] = obs.be /\ registry = Dropped(obs.pre, i)
           ELSE registry = obs.pre

\* the first of two registered backends was removed and the second stayed
C27_FirstOfTwoRemoved ==
    /\ obs.op = "remove"
    /\ obs.pre = <<"b1", "b2">>
    /\ obs.be = "b1"
    /\ registry = <<"b2">>

(* --------------- health loop over a fixed-verdict checker -------------- *)
\* the answers of a HealthChecker that returns a fixed verdict per backend
MockVerdict == [b \in Backends |-> b = "b1"]

\* a checker that calls every backend healthy
MockCheckAlwaysHealthy(b) == "markUp"

\* what the probe goroutine does with the checker's answer for b: MarkBackendUp on
\* true, MarkBackendDown on false
MockCheck(b) == IF MockVerdict[b] THEN "markUp" ELSE "markDownDead"

\* healthChecker.Check(ctx, b) returns in the probe goroutine
MockProbeResult(b) ==
    /\ probes[b]["http"] > 0
    /\ probes' = Moved(b, "http", MockCheck(b))
    /\ UNCHANGED <<concVars, now, storeVars, obs, rlVars, beVars, lbVars, reqVars, streak>>

\* the loop over some registered backends, one request at a time going through the
\* proxy meanwhile
MockInit ==
    \E reg \in {<<"b1", "b2">>, <<"b2", "b1">>, <<"b1">>, <<"b2">>}, al \in Algorithms :
        Constructed("memory", FALSE, reg, al)

MockNext ==
    \/ HealthTick
    \/ \E b \in Backends : MockProbeResult(b)
    \/ \E b \in Backends : ProbeMarkUp(b)
    \/ \E b \in Backends : ProbeResetFc(b)
    \/ \E b \in Backends : ProbeMarkDown(b, "markDownDead")
    \/ ReqArrive(1)
    \/ ForwardStep

SpecMock == MockInit /\ [][MockNext]_vars

HealthFairness ==
    /\ WF_vars(HealthTick)
    /\ \A b \in Backends :
           /\ WF_vars(\E healthy \in BOOLEAN : ProbeResult(b, healthy))
           /\ WF_vars(ProbeIncr(b))
           /\ WF_vars(ProbeLoad(b))
           /\ WF_vars(ProbeMarkUp(b))
           /\ WF_vars(ProbeResetFc(b))
           /\ WF_vars(\E p \in {"markDownThr", "markDownDead"} : ProbeMarkDown(b, p))

SpecHealthFair == HealthInit /\ [][HealthNext]_vars /\ HealthFairness

\* C29: every tick probes the DOWN backends too; a probe that returned healthy
\* stores UP and then failure count 0; and when the probes of a backend return
\* healthy from some point on (its run of unhealthy results stays at 0), the
\* backend is eventually UP for good, so NextBackend can return it again.
C29_DownBackendsRecover ==
    /\ [][\A b \in Backends :
             /\ (probes'[b]["http"] > probes[b]["http"]) =>
                    \A c \in Backends :
                        InSeq(c, registry) => probes'[c]["http"] = probes[c]["http"] + 1
             /\ (probes'[b]["markUp"] < probes[b]["markUp"]) =>
                    (alive'[b] /\ probes'[b]["resetFc"] = probes[b]["resetFc"] + 1)
             /\ (probes'[b]["resetFc"] < probes[b]["resetFc"]) => fc'[b] = 0]_vars
    /\ \A b \in Backends :
           <>[](streak[b] = 0) => <>[](alive[b] /\ InSeq(b, GetHealthyBackends))

\* a backend is DOWN and its probe has come back healthy
C29_DownBackendProbedHealthy ==
    \E b \in Backends :
        /\ ~alive[b]
        /\ probes[b]["markUp"] = 1
        /\ fc[b] >= Threshold

(* ------------------------- client id derivation ------------------------ *)
\* header values and addresses are strings, modelled as sequences of characters
Chars == {"1", "2", ",", " "}
MaxHeaderLen == 3
\* the values X-Forwarded-For can have ("" when the header is absent)
ForwardedFors == UNION {[1..n -> Chars] : n \in 0..MaxHeaderLen}
\* the values X-Real-IP can have
RealIPs == {<<>>, <<"2">>}
\* the values of http.Request.RemoteAddr: host:port, or a host without a port
RemoteAddrs == {<<"1", ":", "8">>, <<"2", ":", "8">>, <<"1">>}

\* index of the first occurrence of character c in s, 0 when there is none
RECURSIVE IndexFrom(_, _, _)
IndexFrom(s, c, i) ==
    IF i > Len(s) THEN 0 ELSE IF s[i] = c THEN i ELSE IndexFrom(s, c, i + 1)

\* strings.Split(s, sep) for a one-character separator
RECURSIVE Split(_, _)
Split(s, sep) ==
    LET i == IndexFrom(s, sep, 1) IN
    IF i = 0 THEN <<s>>
    ELSE <<SubSeq(s, 1, i - 1)>> \o Split(SubSeq(s, i + 1, Len(s)), sep)

\* strings.TrimSpace
RECURSIVE TrimSpace(_)
TrimSpace(s) ==
    IF s = <<>> THEN s
    ELSE IF Head(s) = " " THEN TrimSpace(Tail(s))
    ELSE IF s[Len(s)] = " " THEN TrimSpace(SubSeq(s, 1, Len(s) - 1))
    ELSE s

\* net.SplitHostPort: the host before the port, or an error when there is no port
SplitHostPort(addr) ==
    LET i == IndexFrom(addr, ":", 1) IN
    IF i = 0 THEN [host |-> <<>>, err |-> "missing port"]
    ELSE [host |-> SubSeq(addr, 1, i - 1), err |-> "nil"]

\* the last step of both getClientIP functions
RemoteHost(addr) ==
    IF SplitHostPort(addr).err # "nil" THEN addr ELSE SplitHostPort(addr).host

\* getClientIP of package proxy (used by ServeHTTP for the rate limiter)
ProxyGetClientIP(xff, realIP, addr) ==
    IF xff # <<>> THEN TrimSpace(Split(xff, ",")[1])
    ELSE IF realIP # <<>> THEN realIP
    ELSE RemoteHost(addr)

\* getClientIP of package ratelimit (used by HandleStatus when client_id is empty)
StatusGetClientIP(xff, realIP, addr) ==
    IF xff # <<>> THEN xff
    ELSE IF realIP # <<>> THEN realIP
    ELSE RemoteHost(addr)

\* both derivations applied to one request
DeriveClientIP(xff, realIP, addr) ==
    /\ obs' = [op |-> "clientIP", xff |-> xff, realIP |-> realIP, addr |-> addr,
               proxy |-> ProxyGetClientIP(xff, realIP, addr),
               status |-> StatusGetClientIP(xff, realIP, addr)]
    /\ UNCHANGED <<concVars, now, storeVars, rlVars, beVars, lbVars, reqVars, healthVars>>

IPInit == Constructed("memory", TRUE, <<"b1", "b2">>, "round_robin")

IPNext ==
    \E xff \in ForwardedFors, realIP \in RealIPs, addr \in RemoteAddrs :
        DeriveClientIP(xff, realIP, addr)

SpecIP == IPInit /\ [][IPNext]_vars

\* s with the spaces at both ends left out: the stretch from its first to its last
\* character that is not a space
Trimmed(s) ==
    LET inked == {i \in 1..Len(s) : s[i] # " "} IN
    IF inked = {} THEN <<>>
    ELSE SubSeq(s, CHOOSE i \in inked : \A j \in inked : i <= j,
                   CHOOSE i \in inked : \A j \in inked : i >= j)

\* the client id the specification derives (section 5, step 1)
RefClientID(xff, realIP, addr) ==
    IF xff # <<>>
    THEN LET commas == {i \in 1..Len(xff) : xff[i] = ","}
             stop == IF commas = {} THEN Len(xff) + 1
                     ELSE CHOOSE i \in commas : \A j \in commas : i <= j
         IN Trimmed(SubSeq(xff, 1, stop - 1))
    ELSE IF realIP # <<>> THEN realIP
    ELSE LET colons == {i \in 1..Len(addr) : addr[i] = ":"} IN
         IF colons = {} THEN addr
         ELSE SubSeq(addr, 1, (CHOOSE i \in colons : \A j \in colons : i >= j) - 1)

\* C30: the proxy's client id is the first comma-separated entry of
\* X-Forwarded-For, trimmed, when the header is there, else X-Real-IP when that is
\* there, else the host of the remote address; and GET /client-status without
\* client_id derives the same id from the same headers and address.
C30_SameClientIdEverywhere ==
    obs.op = "clientIP" =>
        /\ obs.proxy = RefClientID(obs.xff, obs.realIP, obs.addr)
        /\ obs.status = obs.proxy

(* ------------------- verdicts that confirm the current state ----------- *)
\* some probe goroutine of b, holding the checker's verdict, takes a step
VerdictStep(b) ==
    \/ probes'[b]["markUp"] < probes[b]["markUp"]
    \/ probes'[b]["resetFc"] < probes[b]["resetFc"]
    \/ probes'[b]["markDownDead"] < probes[b]["markDownDead"]

\* C31: a healthy verdict for a backend that is already UP changes neither its
\* availability nor its failure count, and an unhealthy verdict for a backend that
\* is already DOWN changes neither. Stated for the checker of fixed verdicts, under
\* which the backend with the healthy verdict is UP throughout.
C31_SettledVerdictIsNoOp ==
    [][\A b \in Backends :
          /\ (VerdictStep(b) /\ MockVerdict[b] /\ alive[b]) =>
                 (alive'[b] /\ fc'[b] = fc[b])
          /\ (VerdictStep(b) /\ ~MockVerdict[b] /\ ~alive[b]) =>
                 (~alive'[b] /\ fc'[b] = fc[b])]_vars

FnErrors == {"nil", "other", "ErrClosed", "DeadlineExceeded", "Canceled"}

\* isConnectionError: redis.ErrClosed, context.DeadlineExceeded, context.Canceled
isConnectionError(e) == e \in {"ErrClosed", "DeadlineExceeded", "Canceled"}

\* backoff := time.Duration(1<<uint(i)) * 100ms, at most 2s; in milliseconds
Backoff(i) == Min(2000, (2 ^ i) * 100)

\* one call WithRetry(ctx, fn, MaxRetries) about to run its first attempt; late counts
\* the attempts begun when ctx was already cancelled
RetryCall(cancelled) ==
    [op |-> "WithRetry", pc |-> "top", i |-> 0, calls |-> 0, err |-> "nil", waits |-> <<>>,
     reconnects |-> 0, client |-> "first", cancelled |-> cancelled, late |-> 0,
     ret |-> "none", by |-> "none"]

\* WithRetry is called, its context live or already cancelled
RetryEnter(cancelled) ==
    /\ obs.op = "none" \/ (obs.op = "WithRetry" /\ obs.pc = "returned")
    /\ obs' = RetryCall(cancelled)
    /\ UNCHANGED <<concVars, now, storeVars, rlVars, beVars, lbVars, reqVars,
                   healthVars>>

\* client := c.Get(); fn(client) is entered for the first attempt
FnInvoke ==
    /\ obs.op = "WithRetry"
    /\ obs.pc = "top"
    /\ obs' = [obs EXCEPT !.pc = "fn", !.calls = @ + 1,
                          !.late = IF obs.cancelled THEN @ + 1 ELSE @]
    /\ UNCHANGED <<concVars, now, storeVars, rlVars, beVars, lbVars, reqVars,
                   healthVars>>

\* fn returns e: WithRetry returns it when it is nil, not a connection error, or the
\* last attempt's; else it goes on to the reconnect
FnReturn(e) ==
    /\ obs.op = "WithRetry"
    /\ obs.pc = "fn"
    /\ obs' = IF ~isConnectionError(e) \/ obs.i = MaxRetries
              THEN [obs EXCEPT !.pc = "returned", !.err = e, !.ret = e, !.by = "fn"]
              ELSE [obs EXCEPT !.pc = "reconnect", !.err = e]
    /\ UNCHANGED <<concVars, now, storeVars, rlVars, beVars, lbVars, reqVars,
                   healthVars>>

\* c.Reconnect(), its error only logged: the old client is closed, and replaced
\* when the new one answers the ping
Reconnect(ok) ==
    /\ obs.op = "WithRetry"
    /\ obs.pc = "reconnect"
    /\ obs' = [obs EXCEPT !.pc = "wait", !.reconnects = @ + 1,
                          !.client = IF ok THEN "new" ELSE "closed"]
    /\ UNCHANGED <<concVars, now, storeVars, rlVars, beVars, lbVars, reqVars,
                   healthVars>>

\* select: case <-ctx.Done(): return ctx.Err()
WaitDone ==
    /\ obs.op = "WithRetry"
    /\ obs.pc = "wait"
    /\ obs.cancelled
    /\ obs' = [obs EXCEPT !.pc = "returned", !.ret = "ctx.Err()", !.by = "ctx"]
    /\ UNCHANGED <<concVars, now, storeVars, rlVars, beVars, lbVars, reqVars,
                   healthVars>>

\* select: case <-time.After(backoff): the loop goes round and enters fn again
WaitTimer ==
    /\ obs.op = "WithRetry"
    /\ obs.pc = "wait"
    /\ ~obs.cancelled
    /\ obs' = [obs EXCEPT !.pc = "fn", !.waits = Append(@, Backoff(obs.i)),
                          !.i = @ + 1, !.calls = @ + 1]
    /\ UNCHANGED <<concVars, now, storeVars, rlVars, beVars, lbVars, reqVars,
                   healthVars>>

\* the caller's context is cancelled (or its deadline passes) while WithRetry runs
CtxCancel ==
    /\ obs.op = "WithRetry"
    /\ obs.pc # "returned"
    /\ ~obs.cancelled
    /\ obs' = [obs EXCEPT !.cancelled = TRUE]
    /\ UNCHANGED <<concVars, now, storeVars, rlVars, beVars, lbVars, reqVars,
                   healthVars>>

RetryInit == Constructed("redis", TRUE, <<"b1", "b2">>, "round_robin")

RetryNext ==
    \/ \E cancelled \in BOOLEAN : RetryEnter(cancelled)
    \/ FnInvoke
    \/ \E e \in FnErrors : FnReturn(e)
    \/ \E ok \in BOOLEAN : Reconnect(ok)
    \/ WaitDone
    \/ WaitTimer
    \/ CtxCancel

SpecRetry == RetryInit /\ [][RetryNext]_vars

\* WithRetry is running or has returned
Retrying == obs.op = "WithRetry"

\* C33: WithRetry(fn, 3) invokes fn at most 4 times; it returns fn's result
\* at once on success and on an error that is not a recognised connection error;
\* between attempts it reconnects and waits 100, 200, 400 ms; and once the context
\* is cancelled it invokes fn no further and returns the context's error.
C33_NoAttemptOnceCancelled ==
    [][Retrying /\ Retrying' /\ obs.pc # "returned" =>
          /\ obs'.calls <= MaxRetries + 1
          /\ (obs.pc = "fn" /\ obs'.pc = "reconnect") => isConnectionError(obs'.err)
          /\ obs'.waits = [j \in 1..obs'.i |-> (2 ^ (j - 1)) * 100]
          /\ obs'.reconnects >= obs'.i
          /\ obs.cancelled => obs'.calls = obs.calls
          /\ (obs.cancelled /\ obs'.pc = "returned") => obs'.by = "ctx"]_vars

(* ---------------- StartHealthChecks, its select and its context -------- *)
\* StartHealthChecks(ctx, balancer, cfg, healthChecker) as called: pc run = about to
\* evaluate the select, blocked = parked in it, tick / done = the case taken,
\* returned; tick: a tick waits in ticker.C; late: ticks taken by a select that was
\* evaluated when ctx was already cancelled
LoopCall(enabled) ==
    [op |-> "StartHealthChecks", enabled |-> enabled,
     pc |-> IF enabled THEN "run" ELSE "returned",
     tick |-> FALSE, cancelled |-> FALSE, ticks |-> 0, late |-> 0]

Looping == obs.op = "StartHealthChecks"

\* go StartHealthChecks(...): returns at once when cfg.Enabled is false
LoopStart(enabled) ==
    /\ obs.op = "none"
    /\ obs' = LoopCall(enabled)
    /\ UNCHANGED <<concVars, now, storeVars, rlVars, beVars, lbVars, reqVars, healthVars>>

\* the ticker's interval passes: the tick is buffered in ticker.C (dropped when one
\* is waiting already), and a loop parked in the select takes it
TickerFire ==
    /\ Looping
    /\ obs.pc \in {"run", "blocked", "tick", "done"}
    /\ ~obs.tick
    /\ obs' = IF obs.pc = "blocked" THEN [obs EXCEPT !.pc = "tick"]
              ELSE [obs EXCEPT !.tick = TRUE]
    /\ UNCHANGED <<concVars, now, storeVars, rlVars, beVars, lbVars, reqVars, healthVars>>

\* the supervising context is cancelled: a loop parked in the select takes ctx.Done()
CtxCancelled ==
    /\ Looping
    /\ obs.pc # "returned"
    /\ ~obs.cancelled
    /\ obs' = [obs EXCEPT !.cancelled = TRUE,
                          !.pc = IF obs.pc = "blocked" THEN "done" ELSE @]
    /\ UNCHANGED <<concVars, now, storeVars, rlVars, beVars, lbVars, reqVars, healthVars>>

\* the cases the select can take when it is evaluated: any case that is ready, the
\* choice among several not determined; it parks when none is
SelectCases ==
    IF obs.tick \/ obs.cancelled
    THEN (IF obs.tick THEN {"tick"} ELSE {}) \cup (IF obs.cancelled THEN {"done"} ELSE {})
    ELSE {"blocked"}

\* select { case <-ctx.Done(): ... case <-ticker.C: ... } is evaluated
SelectEval ==
    /\ Looping
    /\ obs.pc = "run"
    /\ \E c \in SelectCases :
           obs' = [obs EXCEPT !.pc = c,
                              !.tick = IF c = "tick" THEN FALSE ELSE @,
                              !.late = IF c = "tick" /\ obs.cancelled THEN @ + 1 ELSE @]
    /\ UNCHANGED <<concVars, now, storeVars, rlVars, beVars, lbVars, reqVars, healthVars>>

\* case <-ticker.C: a probe goroutine per backend of GetAllBackends
LoopTick ==
    /\ Looping
    /\ obs.pc = "tick"
    /\ \A b \in Backends : InSeq(b, registry) => InFlight(b) < MaxInflight
    /\ obs.ticks < MaxTick
    /\ probes' = [b \in Backends |->
                    IF InSeq(b, registry)
                    THEN [probes[b] EXCEPT !["http"] = @ + 1] ELSE probes[b]]
    /\ obs' = [obs EXCEPT !.pc = "run", !.ticks = @ + 1]
    /\ UNCHANGED <<concVars, now, storeVars, rlVars, beVars, lbVars, reqVars, streak>>

\* case <-ctx.Done(): return (the deferred ticker.Stop() runs)
LoopReturn ==
    /\ Looping
    /\ obs.pc = "done"
    /\ obs' = [obs EXCEPT !.pc = "returned", !.tick = FALSE]
    /\ UNCHANGED <<concVars, now, storeVars, rlVars, beVars, lbVars, reqVars, healthVars>>

LoopInit == MockInit

LoopNext ==
    \/ \E enabled \in BOOLEAN : LoopStart(enabled)
    \/ TickerFire
    \/ CtxCancelled
    \/ SelectEval
    \/ LoopTick
    \/ LoopReturn
    \/ \E b \in Backends : MockProbeResult(b)
    \/ \E b \in Backends : ProbeMarkUp(b)
    \/ \E b \in Backends : ProbeResetFc(b)
    \/ \E b \in Backends : ProbeMarkDown(b, "markDownDead")

SpecLoop == LoopInit /\ [][LoopNext]_vars

\* C34: a select that is evaluated once the context is cancelled takes no tick, so
\* no probe is launched for a tick taken after the cancellation, and the loop goes
\* on to return; with health checks disabled StartHealthChecks has returned at once
\* and no probe is ever launched.
C34_NoTickAfterCancel ==
    [][Looping /\ Looping' =>
          /\ (obs.cancelled /\ obs.pc = "run") => obs'.pc \in {"run", "done"}
          /\ obs'.late = 0
          /\ ~obs.enabled => (obs.pc = "returned" /\ probes' = probes)]_vars

(* ------------------ snapshots of the registry and its array ------------ *)
\* A slice a caller holds: either its own array (cells), or the first Len(cells)
\* cells of the array under b.backends (shared). obs.spare holds the cells of that
\* array beyond len(b.backends); obs.all and obs.healthy are the slices returned last.
NoSlice == [shared |-> FALSE, cells |-> <<>>, taken |-> FALSE]

\* a GetAllBackends that hands out b.backends itself
GetAllBackendsShared == [shared |-> TRUE, cells |-> registry, taken |-> TRUE]

\* BaseBalancer.GetAllBackends: make and copy
GetAllBackends == [shared |-> FALSE, cells |-> registry, taken |-> TRUE]

\* what a caller reads in slice s, given the registry and the spare cells of its array
Cells(s, reg, spare) ==
    IF s.shared THEN SubSeq(reg \o spare, 1, Len(s.cells)) ELSE s.cells

\* slice s once b.backends has moved to a new array: a shared slice keeps the old one
Detached(s, reg, spare) ==
    [shared |-> FALSE, cells |-> Cells(s, reg, spare), taken |-> s.taken]

\* NewBaseBalancer keeps the configured list: its array has no spare cell
SnapStart ==
    /\ obs.op = "none"
    /\ obs' = [op |-> "snapshots", spare |-> <<>>, all |-> NoSlice, healthy |-> NoSlice]
    /\ UNCHANGED <<concVars, now, storeVars, rlVars, beVars, lbVars, reqVars, healthVars>>

\* append(b.backends, backend): in place when the array has a spare cell, else into
\* a new array of twice the capacity (capacity 1 from 0)
SnapRegister(b) ==
    /\ obs.op = "snapshots"
    /\ ~InSeq(b, registry)
    /\ registry' = Registered(registry, b)
    /\ IF obs.spare # <<>>
       THEN obs' = [obs EXCEPT !.spare = Tail(@)]
       ELSE obs' = [obs EXCEPT
                       !.spare = [i \in 1..(Max(1, 2 * Len(registry)) - Len(registry) - 1)
                                    |-> NoBackend],
                       !.all = Detached(@, registry, obs.spare),
                       !.healthy = Detached(@, registry, obs.spare)]
    /\ UNCHANGED <<concVars, now, storeVars, rlVars, beVars, cursor, algo, picked, reqVars,
                   healthVars>>

\* append(b.backends[:i], b.backends[i+1:]...): the tail moves down inside the array,
\* whose cell after the new end keeps the old last entry
SnapRemove(b) ==
    /\ obs.op = "snapshots"
    /\ InSeq(b, registry)
    /\ registry' = Without(registry, b)
    /\ obs' = [obs EXCEPT !.spare = <<registry[Len(registry)]>> \o @]
    /\ UNCHANGED <<concVars, now, storeVars, rlVars, beVars, cursor, algo, picked, reqVars,
                   healthVars>>

\* MarkBackendDown / MarkBackendUp on a registered backend
SnapMark(b, up) ==
    /\ obs.op = "snapshots"
    /\ InSeq(b, registry)
    /\ alive' = [alive EXCEPT ![b] = up]
    /\ fc' = IF up THEN [fc EXCEPT ![b] = 0] ELSE fc
    /\ UNCHANGED <<concVars, now, storeVars, obs, rlVars, active, total, failed, lbVars,
                   reqVars, healthVars>>

\* a caller takes GetAllBackends()
GetAllBackendsCall ==
    /\ obs.op = "snapshots"
    /\ obs' = [obs EXCEPT !.all = GetAllBackends]
    /\ UNCHANGED <<concVars, now, storeVars, rlVars, beVars, lbVars, reqVars, healthVars>>

\* a caller takes GetHealthyBackends(): a slice appended to from nil
GetHealthyBackendsCall ==
    /\ obs.op = "snapshots"
    /\ obs' = [obs EXCEPT !.healthy = [shared |-> FALSE, cells |-> GetHealthyBackends,
                                       taken |-> TRUE]]
    /\ UNCHANGED <<concVars, now, storeVars, rlVars, beVars, lbVars, reqVars, healthVars>>

SnapInit == RegInit

SnapNext ==
    \/ SnapStart
    \/ \E b \in Backends : SnapRegister(b)
    \/ \E b \in Backends : SnapRemove(b)
    \/ \E b \in Backends, up \in BOOLEAN : SnapMark(b, up)
    \/ GetAllBackendsCall
    \/ GetHealthyBackendsCall

SpecSnap == SnapInit /\ [][SnapNext]_vars

\* C35: the slice GetHealthyBackends returns holds exactly the registered backends
\* that are available at the call, in the order of the registry, and the slice
\* GetAllBackends returns holds the whole registry in its order; what a caller
\* reads in a slice it was given is not changed by a later RegisterBackend,
\* RemoveBackend, MarkBackendDown or MarkBackendUp.
C35_SnapshotsAreFresh ==
    [][(obs.op = "snapshots" /\ obs'.op = "snapshots") =>
          LET allPre == Cells(obs.all, registry, obs.spare)
              allPost == Cells(obs'.all, registry', obs'.spare)
              healthyPre == Cells(obs.healthy, registry, obs.spare)
              healthyPost == Cells(obs'.healthy, registry', obs'.spare)
              changed == registry' # registry \/ alive' # alive
          IN
          /\ (~changed /\ obs'.all # obs.all) =>
                 (allPost = registry /\ healthyPost = healthyPre)
          /\ (~changed /\ obs'.healthy # obs.healthy) =>
                 /\ healthyPost = SelectSeq(registry, LAMBDA b : alive[b])
                 /\ allPost = allPre
          /\ changed => (allPost = allPre /\ healthyPost = healthyPre)]_vars

\* both slices were taken over two available backends; since then the first was
\* removed from the registry and the second marked DOWN, and the slices still hold both
C35_SlicesOutliveRemoval ==
    /\ obs.op = "snapshots"
    /\ Cells(obs.all, registry, obs.spare) = <<"b1", "b2">>
    /\ Cells(obs.healthy, registry, obs.spare) = <<"b1", "b2">>
    /\ registry = <<"b2">>
    /\ ~alive["b2"]

(* ------------- RedisStorage.TakeTokens through the retry wrapper ------- *)
\* tokens a bucket counts for under capacity c: an absent bucket is full
TokensOf(bucket, c) == IF bucket = NoBucket THEN c ELSE bucket.tokens

\* RedisStorage.TakeTokens(ctx, k, n, capacity, refillRate): now is read once, then
\* ExecLuaScript runs the script under WithRetry(ctx, fn, 3)
TakeTokensEnter(k, n, capacity, refillRate, cancelled) ==
    /\ obs.op = "none" \/ (obs.op = "WithRetry" /\ obs.pc = "returned")
    /\ started < MaxRequests
    /\ started' = started + 1
    /\ obs' = RetryCall(cancelled) @@
                [key |-> k, n |-> n, capacity |-> capacity, refillRate |-> refillRate,
                 at |-> now, pre |-> TokensOf(redB[k], capacity)]
    /\ UNCHANGED <<concVars, now, storeVars, rlVars, beVars, lbVars, req, healthVars>>

\* what one client.Eval can come to: the server ran the script or not, and the call
\* returns nil (only when it ran), an error WithRetry does not recognise, ErrClosed
\* (the client was closed before the command was sent, or by another goroutine's
\* Reconnect before the reply was read), or the error of the context once it is done
EvalOutcomes ==
    {o \in [executed : BOOLEAN, err : FnErrors] :
        /\ o.err = "nil" => o.executed
        /\ o.err \in {"DeadlineExceeded", "Canceled"} => obs.cancelled}

\* fn of ExecLuaScript returns: the bucket is the script's when the server ran it
EvalReturn(o) ==
    /\ obs.op = "WithRetry"
    /\ obs.pc = "fn"
    /\ o \in EvalOutcomes
    /\ redB' = IF o.executed
               THEN [redB EXCEPT ![obs.key] =
                        RedisScript(@, obs.at, obs.n, obs.capacity, obs.refillRate).bucket]
               ELSE redB
    /\ obs' = IF ~isConnectionError(o.err) \/ obs.i = MaxRetries
              THEN [obs EXCEPT !.pc = "returned", !.err = o.err, !.ret = o.err, !.by = "fn"]
              ELSE [obs EXCEPT !.pc = "reconnect", !.err = o.err]
    /\ UNCHANGED <<concVars, now, memB, memC, redC, rlVars, beVars, lbVars, reqVars,
                   healthVars>>

TakeInit == Constructed("redis", TRUE, <<"b1", "b2">>, "round_robin")

TakeNext ==
    \/ AdvanceTime
    \/ \E n \in {1, 2}, r \in {0, DefaultRefillRate}, cancelled \in BOOLEAN :
           TakeTokensEnter("c1", n, MaxCap, r, cancelled)
    \/ FnInvoke
    \/ \E o \in [executed : BOOLEAN, err : FnErrors] : EvalReturn(o)
    \/ \E ok \in BOOLEAN : Reconnect(ok)
    \/ WaitDone
    \/ WaitTimer
    \/ CtxCancel

SpecTake == TakeInit /\ [][TakeNext]_vars

\* C36: one TakeTokens(k, n) call on the networked store leaves the bucket of k at
\* no less than its token count at the call minus n, however often the retry wrapper
\* runs the script again.
C36_TakeDeductsOnce ==
    (obs.op = "WithRetry" /\ started > 0) =>
        TokensOf(redB[obs.key], obs.capacity) >= obs.pre - obs.n

(* --------------------- tokens granted over a window -------------------- *)
\* take_tokens calls made on the key in one run
MaxCalls == 4

\* MemoryStorage.TakeTokens is entered by caller c: s.mu.Lock()
WindowLock(c, n) ==
    /\ storeKind = "memory"
    /\ calls[c].pc = "idle"
    /\ started < MaxCalls
    /\ MuFree(mu)
    /\ mu' = c
    /\ started' = started + 1
    /\ calls' = [calls EXCEPT ![c] = [IdleCall EXCEPT !.pc = "locked", !.n = n]]
    /\ UNCHANGED <<now, storeVars, obs, rlVars, beVars, lbVars, req, healthVars,
                   granted, supplied, lookups>>

\* RedisStorage.TakeTokens is entered by caller c: now := time.Now().UnixMilli(); the
\* script reaches the server later, after the network and any backoff of WithRetry
WindowStamp(c, n) ==
    /\ storeKind = "redis"
    /\ calls[c].pc = "idle"
    /\ started < MaxCalls
    /\ started' = started + 1
    /\ calls' = [calls EXCEPT ![c] = [IdleCall EXCEPT !.pc = "sent", !.n = n, !.at = now]]
    /\ UNCHANGED <<now, storeVars, obs, rlVars, beVars, lbVars, req, healthVars,
                   mu, granted, supplied, lookups>>

\* the bucket of the key is full at time 0 and its (capacity, refill rate) stays
WindowInit == ConcInit

WindowNext ==
    \/ AdvanceTime
    \/ \E c \in Reqs, n \in {1, MaxCap} : WindowLock(c, n)
    \/ \E c \in Reqs : TakeRead(c)
    \/ \E c \in Reqs : TakeWrite(c)
    \/ \E c \in Reqs, n \in {1, MaxCap} : WindowStamp(c, n)
    \/ \E c \in Reqs : TakeScript(c)

SpecWindow == WindowInit /\ [][WindowNext]_vars

\* C37: with a fixed (capacity, refill rate) the tokens granted on a key from time 0
\* to now are at most capacity + refill rate * (now - 0), the rate being per second.
C37_GrantsWithinBudget ==
    granted * 1000 <= cache[ConcKey].capacity * 1000 + cache[ConcKey].refillRate * Ms(now)

(* ------------------- a denied client that keeps retrying --------------- *)
\* The clock is kept relative: now stays 0 and the passing of d ticks moves every
\* lastRefill d ticks into the past, which is all TakeTokens and the script look at
\* (now - lastRefill). Beyond MaxAge ticks a bucket is refilled to any capacity up
\* to MaxCap at any rate of at least 1/s, so older stamps are kept at MaxAge.
MaxAge == 2 * MaxCap

Aged(bucket, d) ==
    IF bucket = NoBucket THEN bucket
    ELSE [bucket EXCEPT !.lastRefill = Max(@ - d, 0 - MaxAge)]

\* d ticks pass
Elapse(d) ==
    /\ memB' = [k \in Keys |-> Aged(memB[k], d)]
    /\ redB' = [k \in Keys |-> Aged(redB[k], d)]
    /\ obs' = [obs EXCEPT !.waited = Min(@ + d, MaxAge)]
    /\ UNCHANGED <<concVars, now, memC, redC, rlVars, beVars, lbVars, reqVars, healthVars>>

\* the client calls take_tokens(ConcKey, n) with the limiter's cached pair; the
\* connection is healthy
RetryTake(n) ==
    LET t == StorageTake(storeKind, ConcKey, n, cache[ConcKey].capacity,
                         cache[ConcKey].refillRate, now, NoFault) IN
    /\ memB' = t.memB
    /\ redB' = t.redB
    /\ obs' = [op |-> "take", n |-> n, allowed |-> t.allowed, waited |-> 0]
    /\ UNCHANGED <<concVars, now, memC, redC, rlVars, beVars, lbVars, reqVars, healthVars>>

\* a key with capacity >= 1 and refill rate > 0 on either store, no bucket yet
StarveInit ==
    \E kind \in {"memory", "redis"}, c \in Caps, r \in 1..MaxRate :
        /\ now = 0
        /\ memB = [k \in Keys |-> NoBucket]
        /\ redB = [k \in Keys |-> NoBucket]
        /\ memC = [k \in Keys |-> NoConfig]
        /\ redC = [k \in Keys |-> NoConfig]
        /\ obs = [op |-> "none", n |-> 0, allowed |-> TRUE, waited |-> 0]
        /\ storeKind = kind
        /\ cache = [k \in Keys |-> IF k = ConcKey
                                   THEN [capacity |-> c, refillRate |-> r] ELSE NoConfig]
        /\ rlEnabled = TRUE
        /\ registry = <<"b1", "b2">>
        /\ alive = [b \in Backends |-> TRUE]
        /\ fc = [b \in Backends |-> 0]
        /\ active = [b \in Backends |-> 0]
        /\ total = [b \in Backends |-> 0]
        /\ failed = [b \in Backends |-> 0]
        /\ cursor = 0
        /\ algo = "round_robin"
        /\ req = [q \in Reqs |-> IdleReq]
        /\ started = 0
        /\ probes = [b \in Backends |-> [p \in ProbePCs |-> 0]]
        /\ streak = [b \in Backends |-> 0]
        /\ mu = 0
        /\ calls = [q \in Reqs |-> IdleCall]
        /\ granted = 0
        /\ supplied = 0
        /\ picked = [b \in Backends |-> 0]
        /\ lookups = [q \in Reqs |-> IdleLookup]

StarveNext ==
    \/ \E d \in {1, 2} : Elapse(d)
    \/ \E n \in Takes : RetryTake(n)

\* time keeps passing and the client keeps asking for one token
StarveFairness ==
    /\ WF_vars(\E d \in {1, 2} : Elapse(d))
    /\ WF_vars(RetryTake(1))

SpecStarve == StarveInit /\ [][StarveNext]_vars /\ StarveFairness

\* C38: with capacity >= 1 and refill rate > 0, a client whose take of one token was
\* denied and who keeps retrying is eventually allowed, however short the time
\* between its retries, on either store.
C38_DeniedClientEventuallyAllowed ==
    (obs.op = "take" /\ obs.n = 1 /\ ~obs.allowed) ~> (obs.op = "take" /\ obs.allowed)

(* --------------- statistics read while requests are recorded ----------- *)
\* GetStatistics() is called: it will read every backend of the registry; or
\* GetStatus() is called on backend b. todo: the backends still to read; out: the
\* entries built so far
StatCall(op, todo) ==
    /\ obs.op = "none" \/ (obs.op \in {"GetStatistics", "GetStatus"} /\ obs.todo = <<>>)
    /\ todo # <<>>
    /\ obs' = [op |-> op, todo |-> todo, pc |-> "loadTotal", totalReqs |-> 0, out |-> <<>>]
    /\ UNCHANGED <<concVars, now, storeVars, rlVars, beVars, lbVars, reqVars, healthVars>>

\* totalReqs := backend.TotalRequests.Load()
StatLoadTotal ==
    /\ obs.op \in {"GetStatistics", "GetStatus"}
    /\ obs.todo # <<>>
    /\ obs.pc = "loadTotal"
    /\ obs' = [obs EXCEPT !.pc = "loadFailed", !.totalReqs = total[Head(obs.todo)]]
    /\ UNCHANGED <<concVars, now, storeVars, rlVars, beVars, lbVars, reqVars, healthVars>>

\* failureRate as GetStatistics computes it, in whole percent
FailureRate(totalReqs, failedReqs) ==
    IF totalReqs > 0 THEN (failedReqs * 100) \div totalReqs ELSE 0

\* failedReqs := backend.FailedReqs.Load(), and the entry of the backend is built
StatLoadFailed ==
    /\ obs.op \in {"GetStatistics", "GetStatus"}
    /\ obs.todo # <<>>
    /\ obs.pc = "loadFailed"
    /\ obs' = [obs EXCEPT
                  !.pc = "loadTotal",
                  !.todo = Tail(@),
                  !.out = Append(@, [url |-> Head(obs.todo),
                                     total |-> obs.totalReqs,
                                     failed |-> failed[Head(obs.todo)],
                                     rate |-> FailureRate(obs.totalReqs,
                                                          failed[Head(obs.todo)])])]
    /\ UNCHANGED <<concVars, now, storeVars, rlVars, beVars, lbVars, reqVars, healthVars>>

\* the proxy without a rate limiter over two backends
StatInit == Constructed("memory", FALSE, <<"b1", "b2">>, "round_robin")

StatNext ==
    \/ StatCall("GetStatistics", registry)
    \/ \E b \in Backends : StatCall("GetStatus", <<b>>)
    \/ StatLoadTotal
    \/ StatLoadFailed
    \/ \E r \in Reqs : ReqArrive(r)
    \/ \E r \in Reqs : ReqSnapshot(r)
    \/ \E r \in Reqs : ReqSelect(r)
    \/ \E r \in Reqs : ReqForward(r)
    \/ \E r \in Reqs, o \in UpstreamOutcomes : ReqOutcome(r, o)
    \/ \E r \in Reqs : ReqRecord(r)
    \/ \E r \in Reqs : ReqIncrFailure(r)
    \/ \E r \in Reqs : ReqExit(r)

SpecStat == StatInit /\ [][StatNext]_vars

\* C39: every entry GetStatistics or GetStatus builds while requests are being
\* recorded has failed_requests <= total_requests, and a failure rate of at most 100.
C39_SnapshotFailedWithinTotal ==
    obs.op \in {"GetStatistics", "GetStatus"} =>
        \A i \in 1..Len(obs.out) :
            obs.out[i].failed <= obs.out[i].total /\ obs.out[i].rate <= 100


(* ------------- both stores over client ids whose keys may collide ------- *)
\* client identifiers as the proxy receives them (a forwarded-for header or
\* an API path segment): the second one starts with the config prefix
ClientIDs == {"c1", "config:c1"}

RateLimitPrefix == "ratelimit:"
ConfigPrefix == "config:"

\* the key of a client's bucket in the networked store
RateLimitKey(clientID) == RateLimitPrefix \o clientID

\* the key of a client's config in the networked store
ConfigKey(clientID) == RateLimitPrefix \o ConfigPrefix \o clientID

\* every key the two helpers can produce for the ids above
RedisKeySpace == {RateLimitKey(i) : i \in ClientIDs} \cup {ConfigKey(i) : i \in ClientIDs}

\* a hash of the networked store: the four fields the code ever writes, -1
\* for a field that is absent
NoHash == [tokens |-> -1, lastRefill |-> -1, capacity |-> -1, refillRate |-> -1]

\* what the script reads from a hash (HGET tokens, HGET lastRefill)
HashBucket(h) == [tokens |-> h.tokens, lastRefill |-> h.lastRefill]

\* the config fields of a hash
HashConfig(h) == [capacity |-> h.capacity, refillRate |-> h.refillRate]

\* strconv.Atoi of a field of the HGETALL reply, error ignored: 0 when absent
AtoiField(v) == IF v = -1 THEN 0 ELSE v

\* RedisStorage.GetClientConfig on the hash under ConfigKey
HashGetClientConfig(h) ==
    IF h = NoHash THEN [capacity |-> 0, refillRate |-> 0]
    ELSE [capacity |-> AtoiField(h.capacity), refillRate |-> AtoiField(h.refillRate)]

\* both stores, empty: the two maps of MemoryStorage and the server's keyspace
EmptyStores ==
    [op |-> "keys", last |-> [op |-> "new", id |-> "c1"],
     tokens |-> [i \in ClientIDs |-> NoBucket],
     configs |-> [i \in ClientIDs |-> NoConfig],
     redis |-> [k \in RedisKeySpace |-> NoHash]]

\* a take whose script replaces the whole hash by the two bucket fields
KeyTakeTokensReplacing(st, id, n, capacity, refillRate, at) ==
    LET m == MemTake(st.tokens[id], at, n, capacity, refillRate)
        r == RedisScript(HashBucket(st.redis[RateLimitKey(id)]), at, n, capacity, refillRate)
    IN [st EXCEPT !.tokens[id] = m.bucket,
                  !.redis[RateLimitKey(id)] =
                      [NoHash EXCEPT !.tokens = r.bucket.tokens,
                                     !.lastRefill = r.bucket.lastRefill],
                  !.last = [op |-> "take", id |-> id]]

\* TakeTokens of both stores: s.tokens[key] in memory, HSET of tokens and
\* lastRefill on RateLimitKey(key) on the server
KeyTakeTokens(st, id, n, capacity, refillRate, at) ==
    LET m == MemTake(st.tokens[id], at, n, capacity, refillRate)
        r == RedisScript(HashBucket(st.redis[RateLimitKey(id)]), at, n, capacity, refillRate)
    IN [st EXCEPT !.tokens[id] = m.bucket,
                  !.redis[RateLimitKey(id)] =
                      [@ EXCEPT !.tokens = r.bucket.tokens,
                                !.lastRefill = r.bucket.lastRefill],
                  !.last = [op |-> "take", id |-> id]]

\* SetClientConfig of both stores: s.configs[key] in memory, HSET of capacity
\* and refillRate on ConfigKey(key) on the server
KeySetClientConfig(st, id, capacity, refillRate) ==
    [st EXCEPT !.configs[id] = MemSetConfig(capacity, refillRate),
               !.redis[ConfigKey(id)] =
                   [@ EXCEPT !.capacity = RedisSetConfig(capacity, refillRate).capacity,
                             !.refillRate = RedisSetConfig(capacity, refillRate).refillRate],
               !.last = [op |-> "set", id |-> id]]

\* GetClientConfig of both stores: read-only
KeyGetClientConfig(st, id) ==
    [st EXCEPT !.last = [op |-> "get", id |-> id,
                         mem |-> MemGetConfig(st.configs[id]),
                         red |-> HashGetClientConfig(st.redis[ConfigKey(id)])]]

\* the bucket of a client as each store holds it
BucketOf(st, store, id) ==
    IF store = "memory" THEN st.tokens[id] ELSE HashBucket(st.redis[RateLimitKey(id)])

\* the config of a client as each store holds it
StoredConfigOf(st, store, id) ==
    IF store = "memory" THEN st.configs[id] ELSE HashConfig(st.redis[ConfigKey(id)])

\* the config of a client as GetClientConfig of each store returns it
ConfigOf(st, store, id) ==
    IF store = "memory" THEN MemGetConfig(st.configs[id])
    ELSE HashGetClientConfig(st.redis[ConfigKey(id)])

KeysVarsRest == <<storeVars, rlVars, beVars, lbVars, reqVars, healthVars, concVars>>

\* NewMemoryStorage / a server with no keys
KeysStart ==
    /\ obs.op = "none"
    /\ obs' = EmptyStores
    /\ UNCHANGED <<now, KeysVarsRest>>

KeysTake(id, n, capacity, refillRate) ==
    /\ obs.op = "keys"
    /\ obs' = KeyTakeTokens(obs, id, n, capacity, refillRate, now)
    /\ UNCHANGED <<now, KeysVarsRest>>

KeysSet(id, capacity, refillRate) ==
    /\ obs.op = "keys"
    /\ obs' = KeySetClientConfig(obs, id, capacity, refillRate)
    /\ UNCHANGED <<now, KeysVarsRest>>

KeysGet(id) ==
    /\ obs.op = "keys"
    /\ obs' = KeyGetClientConfig(obs, id)
    /\ UNCHANGED <<now, KeysVarsRest>>

KeysInit == Constructed("memory", FALSE, <<"b1", "b2">>, "round_robin")

KeysNext ==
    \/ AdvanceTime
    \/ KeysStart
    \/ \E id \in ClientIDs, n \in {1, 2}, r \in {0, DefaultRefillRate} :
           KeysTake(id, n, MaxCap, r)
    \/ \E id \in ClientIDs, cfg \in {<<0, 0>>, <<MaxCap, MaxRate>>} :
           KeysSet(id, cfg[1], cfg[2])
    \/ \E id \in ClientIDs : KeysGet(id)

SpecKeys == KeysInit /\ [][KeysNext]_vars

\* C40: a take on one client changes, in either store, only that client's
\* bucket: every other client's bucket and every client's config, as stored
\* and as GetClientConfig returns it, are what they were; setting, deleting
\* or reading a client's config changes no bucket of any client.
C40_TakeAndConfigFrame ==
    [][(obs.op = "keys" /\ obs'.op = "keys") =>
          \A s \in {"memory", "redis"}, j \in ClientIDs :
              /\ obs'.last.op = "take" =>
                    /\ (j # obs'.last.id => BucketOf(obs', s, j) = BucketOf(obs, s, j))
                    /\ StoredConfigOf(obs', s, j) = StoredConfigOf(obs, s, j)
                    /\ ConfigOf(obs', s, j) = ConfigOf(obs, s, j)
              /\ obs'.last.op \in {"set", "get"} =>
                    BucketOf(obs', s, j) = BucketOf(obs, s, j)]_vars

\* a take on the client whose bucket key is the other client's config key, in
\* a state where that hash holds the zeros of a deleted config, and the other
\* client has spent tokens
C40_TakeOnCollidingKey ==
    /\ obs.op = "keys"
    /\ obs.last = [op |-> "take", id |-> "config:c1"]
    /\ RateLimitKey("config:c1") = ConfigKey("c1")
    /\ HashConfig(obs.redis[ConfigKey("c1")]) = [capacity |-> 0, refillRate |-> 0]
    /\ obs.redis[ConfigKey("c1")].tokens = MaxCap - 1
    /\ obs.tokens["c1"].tokens = MaxCap - 2
    /\ obs.configs["c1"] = NoConfig
    /\ obs.configs["config:c1"].capacity = MaxCap

=============================================================================
